---- MODULE Spec2Model ----
(***************************************************************************)
(* Process supervisor of claude-manager (src/src/process.rs).              *)
(*                                                                         *)
(* ProcessManager owns three tables: processes (name -> Child handle),     *)
(* ports (name -> u16) and output_buffers (name -> Vec<String>, behind an  *)
(* Arc<Mutex<..>>).  The main thread calls the public methods; every       *)
(* successful start spawns an OS child and two reader threads (stdout and  *)
(* stderr) that append the lines they read to output_buffers[key].         *)
(*                                                                         *)
(* The main thread is modelled with a program counter because stop()       *)
(* sleeps and blocks in wait(): children and reader threads run while it   *)
(* is inside stop().  All other methods hold no suspension point and are   *)
(* one step each.                                                          *)
(***************************************************************************)
EXTENDS Integers, Sequences, FiniteSets, TLC

VARIABLES
    processes,       \* ProcessManager.processes: name -> child id
    ports,           \* ProcessManager.ports: name -> port
    output_buffers,  \* ProcessManager.output_buffers: name -> sequence of lines
    children,        \* the OS process table: pid -> child, until it is reaped
    readers,         \* the live reader threads, each with the pipe it reads
    spawned,         \* how many children were spawned so far
    pc,              \* where the main thread is
    call,            \* the arguments and locals of the stop() in progress
    ret,             \* the last call that returned: op(name) = val; note tells
                     \* what a stop did, which the caller is not told
    appended,        \* history: every line pushed to a buffer since its insert
    budget,          \* lines the children may still write (bounds the model)
    request_rx,      \* GitWorker: the request channel, paths sent and not received
    result_rx,       \* GitWorker: the result channel, results sent and not received
    cache,           \* GitWorker.cache: path -> CachedEntry
    worker,          \* the worker thread: where it is in its loop, and its locals
    poll,            \* the main thread inside GitWorker::poll, and its locals
    gret,            \* the last GitWorker call that returned: op(path) = val
    fs,              \* the file system: path -> what the directory holds
    now,             \* the monotonic clock (Instant::now()), in milliseconds
    requested,       \* history: the paths requested, in the order of the calls
    published,       \* history: the results the worker has sent, in order
    ningested,       \* history: how many results poll has taken out of the channel
    ticks,           \* how often the clock has advanced (bounds the model)
    fschanges,       \* how often a directory has changed (bounds the model)
    store,           \* App.store.projects: the project entries, a Vec
    selected,        \* App.list_state.selected(): an index into store, or None
    selected_detection,   \* App.selected_detection
    selected_git_status,  \* App.selected_git_status
    input_mode,      \* App.input_mode
    should_quit,     \* App.should_quit
    tui              \* where Tui::run is: in its loop, stopping all, or returned

gitvars == <<request_rx, result_rx, cache, worker, poll, gret, fs, now,
             requested, published, ningested, ticks, fschanges>>

procvars == <<processes, ports, output_buffers, children, readers, spawned,
              pc, call, ret, appended, budget>>

appvars == <<store, selected, selected_detection, selected_git_status,
             input_mode, should_quit, tui>>

vars == <<procvars, gitvars, appvars>>

tables == <<processes, ports, output_buffers>>

----------------------------------------------------------------------------
(* Bounds of the model *)

MaxChildren == 2      \* successful spawns in one behaviour
MaxLines == 1         \* lines the children write in one behaviour
RingRoom == 2         \* SpecRing starts with OutputCap - RingRoom lines buffered
RingLines == 4        \* lines the child of SpecRing still writes
MaxRequests == 2      \* request() calls in one behaviour
MaxTicks == 3         \* advances of the clock in one behaviour
MaxFsChanges == 1     \* changes of a directory in one behaviour

(* Program constants *)

OutputCap == 1000     \* "Keep last 1000 lines"
StaleSecs == 30       \* fetched_at.elapsed().as_secs() > 30

Names == {"a", "b"}
Ports == {3000}
None == "none"
Some(x) == <<x>>
PortArgs == {<<>>} \cup {Some(p) : p \in Ports}    \* Option<u16>
Streams == {"stdout", "stderr"}

(* A command line is a sequence of tokens: a run of whitespace or a word. *)
Commands == { <<>>, <<" ">>, <<"sh", " ">>, <<"nosuch">> }
Installed == {"sh"}

----------------------------------------------------------------------------
(* Helpers over HashMap *)

MapInsert(m, k, v) == [x \in (DOMAIN m) \cup {k} |-> IF x = k THEN v ELSE m[x]]

MapRemove(m, k) == [x \in (DOMAIN m) \ {k} |-> m[x]]

EmptyMap == [x \in {} |-> None]

(* command.split_whitespace().collect() *)
SplitWhitespace(command) == SelectSeq(command, LAMBDA t : t # " ")

(* cmd.spawn(): fails when the program cannot be executed *)
SpawnOk(parts) == parts[1] \in Installed

(* The text of the k-th line child c writes to stream s *)
LineText(c, s, k) == <<c, s, k>>

(* What a reader pushes: the stdout reader the line itself, the stderr
   reader format!("[stderr] {}", line) *)
PushStdout(line) == [prefix |-> "", text |-> line]

PushStderr(line) == [prefix |-> "[stderr] ", text |-> line]

Formatted(s, line) == IF s = "stdout" THEN PushStdout(line) ELSE PushStderr(line)

(* A push that evicts one line too early *)
PushCappedEarly(buf, entry) ==
    LET pushed == Append(buf, entry)
    IN  IF Len(pushed) >= OutputCap THEN Tail(pushed) ELSE pushed

(* A push that puts the line in front *)
PushCappedFront(buf, entry) ==
    LET pushed == <<entry>> \o buf
    IN  IF Len(pushed) > OutputCap THEN SubSeq(pushed, 1, OutputCap) ELSE pushed

(* buf.push(line); if buf.len() > 1000 { buf.remove(0); } *)
PushCapped(buf, entry) ==
    LET pushed == Append(buf, entry)
    IN  IF Len(pushed) > OutputCap THEN Tail(pushed) ELSE pushed

----------------------------------------------------------------------------------------------------------------------------------------------
(* Pure (&self) queries *)

is_running(name) == name \in DOMAIN processes

get_output(name) ==
    IF name \in DOMAIN output_buffers THEN output_buffers[name] ELSE <<>>

running_projects == DOMAIN processes

get_port(name) == IF name \in DOMAIN ports THEN Some(ports[name]) ELSE <<>>

(* What the OS knows of child c: it runs, or it has exited and waits to be
   reaped (a zombie), or it has been reaped and is gone *)
Alive(c) == c \in DOMAIN children /\ children[c].state = "alive"

Zombie(c) == c \in DOMAIN children /\ children[c].state = "zombie"

Reaped(c) == c \in 1..spawned /\ c \notin DOMAIN children

----------------------------------------------------------------------------
(* GitWorker::new (src/src/git_worker.rs): the two channels are empty, the
   cache is empty and the worker thread waits in request_rx.recv() *)

Paths == {"p", "q"}

(* What a directory holds: whether it has a .git entry, the branch that git
   reports when it is run there (None when the git command cannot be run),
   the files that detect looks for, and what package.json holds *)
Dir(dotgit, branch, files, package_json) ==
    [dotgit |-> dotgit, branch |-> branch, files |-> files, package_json |-> package_json]

(* What reading and parsing package.json gives: there is no such file, or
   it cannot be read, or it is not the JSON of a PackageJson, or it is, with
   scripts None or the names of its scripts *)
NoPackageJson == [content |-> "absent", scripts |-> <<>>]

Unreadable == [content |-> "unreadable", scripts |-> <<>>]

Malformed == [content |-> "malformed", scripts |-> <<>>]

PackageJson(scripts) == [content |-> "parsed", scripts |-> scripts]

(* A Rust project in a directory without a .git entry below the work tree
   of a repository, a repository with a JavaScript project, and a
   repository where git cannot be run and package.json is malformed *)
Dirs ==
    { Dir(FALSE, "main", {"Cargo.toml"}, NoPackageJson),
      Dir(TRUE, "main", {"package.json"}, PackageJson(Some({"dev"}))),
      Dir(TRUE, None, {"package.json"}, Malformed) }

(* The directories at the start: a repository with a JavaScript project
   under "p", and one under "q" where both probes fail *)
FirstDirs ==
    ("p" :> Dir(TRUE, "main", {"package.json"}, PackageJson(Some({"dev"})))) @@
    ("q" :> Dir(TRUE, None, {"package.json"}, Malformed))

(* How far the clock moves in one step, in milliseconds *)
Advances == {500, 30000}

WorkerIdle == [pc |-> "recv", path |-> None, git_status |-> <<>>]

PollIdle == [pc |-> "idle", updated |-> FALSE, first |-> 0, avail |-> 0]

GitNewOn(dirs) ==
    /\ request_rx = <<>>
    /\ result_rx = <<>>
    /\ cache = EmptyMap
    /\ worker = WorkerIdle
    /\ poll = PollIdle
    /\ gret = [op |-> "new", path |-> None, val |-> None]
    /\ fs = dirs
    /\ now = 0
    /\ requested = <<>>
    /\ published = <<>>
    /\ ningested = 0
    /\ ticks = 0
    /\ fschanges = 0

GitNew == GitNewOn(FirstDirs)

(* Tui::run in its loop; names and name are the iterator and the variable
   of its for loop over running_projects() *)
TuiRun == [pc |-> "run", names |-> <<>>, name |-> None]

(* App::new on a store without projects: nothing is selected, and Tui::run
   is in its loop *)
AppNew ==
    /\ store = <<>>
    /\ selected = <<>>
    /\ selected_detection = <<>>
    /\ selected_git_status = <<>>
    /\ input_mode = "Normal"
    /\ should_quit = FALSE
    /\ tui = TuiRun

----------------------------------------------------------------------------
(* ProcessManager::new *)

NoCall == [name |-> None, child |-> 0, trace |-> <<>>, forced |-> FALSE]

ProcessManagerNew ==
    /\ processes = EmptyMap
    /\ ports = EmptyMap
    /\ output_buffers = EmptyMap
    /\ children = EmptyMap
    /\ readers = EmptyMap
    /\ spawned = 0
    /\ pc = "idle"
    /\ call = NoCall
    /\ ret = [op |-> "new", name |-> None, val |-> None, note |-> None]
    /\ appended = EmptyMap
    /\ budget = MaxLines

Init ==
    /\ ProcessManagerNew
    /\ GitNew
    /\ AppNew

NewChild ==
    [state |-> "alive",     \* "alive", or "zombie": exited and not waited for
     term |-> FALSE]        \* a SIGTERM is pending

(* A reader thread with its pipe: the lines the child has written to the
   pipe and how many of them the thread has read *)
NewReader(key) == [key |-> key, written |-> 0, nread |-> 0]

(* reader.lines() ends at end of file: the write end of the pipe is closed
   (the child has exited) and every line written has been read.  The loop
   and the thread end there, so the live reader threads are the others. *)
AtEof(r, ch, c) == r.nread = r.written /\ ~(c \in DOMAIN ch /\ ch[c].state = "alive")

LiveReaders(rs, ch) == [r \in {x \in DOMAIN rs : ~AtEof(rs[x], ch, x[1])} |-> rs[r]]

(* A start that stores the buffer before it parses the command *)
StartEmptyAfterInsert(name, command, port) ==
    /\ pc = "idle"
    /\ SplitWhitespace(command) = <<>>
    /\ output_buffers' = MapInsert(output_buffers, name, <<>>)
    /\ appended' = MapInsert(appended, name, <<>>)
    /\ ret' = [op |-> "start", name |-> name, val |-> "Err: Empty command", note |-> None]
    /\ UNCHANGED <<processes, ports, children, readers, spawned, pc, call, budget,
                   gitvars, appvars>>

(* ProcessManager::start_with_port *)
StartEmpty(name, command, port) ==
    /\ pc = "idle"
    /\ SplitWhitespace(command) = <<>>
    /\ ret' = [op |-> "start", name |-> name, val |-> "Err: Empty command", note |-> None]
    /\ UNCHANGED <<processes, ports, output_buffers, children, readers, spawned,
                   pc, call, appended, budget, gitvars, appvars>>

(* A start that stores the buffer before it spawns *)
StartSpawnFailsAfterInsert(name, command, port) ==
    /\ pc = "idle"
    /\ SplitWhitespace(command) # <<>>
    /\ ~SpawnOk(SplitWhitespace(command))
    /\ output_buffers' = MapInsert(output_buffers, name, <<>>)
    /\ appended' = MapInsert(appended, name, <<>>)
    /\ ret' = [op |-> "start", name |-> name, val |-> "Err: spawn", note |-> None]
    /\ UNCHANGED <<processes, ports, children, readers, spawned, pc, call, budget,
                   gitvars, appvars>>

StartSpawnFails(name, command, port) ==
    /\ pc = "idle"
    /\ SplitWhitespace(command) # <<>>
    /\ ~SpawnOk(SplitWhitespace(command))
    /\ ret' = [op |-> "start", name |-> name, val |-> "Err: spawn", note |-> None]
    /\ UNCHANGED <<processes, ports, output_buffers, children, readers, spawned,
                   pc, call, appended, budget, gitvars, appvars>>

(* A start that kills and reaps the child it replaces *)
StartSpawnsReplacing(name, command, port) ==
    LET c == spawned + 1
        kept == (DOMAIN children) \ (IF name \in DOMAIN processes
                                      THEN {processes[name]} ELSE {})
    IN  /\ pc = "idle"
        /\ SplitWhitespace(command) # <<>>
        /\ SpawnOk(SplitWhitespace(command))
        /\ spawned < MaxChildren
        /\ spawned' = c
        /\ children' = MapInsert([k \in kept |-> children[k]], c, NewChild)
        /\ output_buffers' = MapInsert(output_buffers, name, <<>>)
        /\ appended' = MapInsert(appended, name, <<>>)
        /\ readers' = [r \in (DOMAIN readers) \cup {<<c, s>> : s \in Streams} |->
                          IF r[1] = c THEN NewReader(name) ELSE readers[r]]
        /\ processes' = MapInsert(processes, name, c)
        /\ ports' = IF port # <<>> THEN MapInsert(ports, name, port[1]) ELSE ports
        /\ ret' = [op |-> "start", name |-> name, val |-> "Ok", note |-> None]
        /\ UNCHANGED <<pc, call, budget, gitvars, appvars>>

StartSpawns(name, command, port) ==
    LET c == spawned + 1
    IN  /\ pc = "idle"
        /\ SplitWhitespace(command) # <<>>
        /\ SpawnOk(SplitWhitespace(command))
        /\ spawned < MaxChildren
        /\ spawned' = c
        /\ children' = MapInsert(children, c, NewChild)
        /\ output_buffers' = MapInsert(output_buffers, name, <<>>)
        /\ appended' = MapInsert(appended, name, <<>>)
        /\ readers' = [r \in (DOMAIN readers) \cup {<<c, s>> : s \in Streams} |->
                          IF r[1] = c THEN NewReader(name) ELSE readers[r]]
        /\ processes' = MapInsert(processes, name, c)
        /\ ports' = IF port # <<>> THEN MapInsert(ports, name, port[1]) ELSE ports
        /\ ret' = [op |-> "start", name |-> name, val |-> "Ok", note |-> None]
        /\ UNCHANGED <<pc, call, budget, gitvars, appvars>>

Start(name, command, port) ==
    \/ StartEmpty(name, command, port)
    \/ StartSpawnFails(name, command, port)
    \/ StartSpawns(name, command, port)

----------------------------------------------------------------------------
(* The OS children *)

ChildEmit(c, s) ==
    /\ Alive(c)
    /\ budget > 0
    /\ budget' = budget - 1
    /\ readers' = [readers EXCEPT ![<<c, s>>].written = @ + 1]
    /\ UNCHANGED <<processes, ports, output_buffers, children, spawned, pc, call, ret, appended,
                   gitvars, appvars>>

(* The child exits by itself, or on the SIGTERM it was sent *)
ChildExit(c) ==
    /\ Alive(c)
    /\ children' = [children EXCEPT ![c] = [state |-> "zombie", term |-> FALSE]]
    /\ readers' = LiveReaders(readers, children')
    /\ UNCHANGED <<processes, ports, output_buffers, spawned, pc, call, ret,
                   appended, budget, gitvars, appvars>>

----------------------------------------------------------------------------
(* The reader threads: for line in reader.lines().map_while(Result::ok) *)

(* A reader that drops what it reads once the child has exited *)
ReaderStepDropsAfterExit(c, s) ==
    LET r == readers[<<c, s>>]
        entry == Formatted(s, LineText(c, s, r.nread + 1))
    IN  /\ <<c, s>> \in DOMAIN readers
        /\ r.nread < r.written
        /\ readers' = LiveReaders([readers EXCEPT ![<<c, s>>].nread = @ + 1], children)
        /\ IF r.key \in DOMAIN output_buffers /\ Alive(c)
           THEN /\ output_buffers' = [output_buffers EXCEPT ![r.key] = PushCapped(@, entry)]
                /\ appended' = [appended EXCEPT ![r.key] = Append(@, entry)]
           ELSE UNCHANGED <<output_buffers, appended>>
        /\ UNCHANGED <<processes, ports, children, spawned, pc, call, ret, budget,
                       gitvars, appvars>>

(* A reader that pushes with buffers.entry(key).or_default() *)
ReaderStepCreates(c, s) ==
    LET r == readers[<<c, s>>]
        entry == Formatted(s, LineText(c, s, r.nread + 1))
        buf == IF r.key \in DOMAIN output_buffers THEN output_buffers[r.key] ELSE <<>>
        all == IF r.key \in DOMAIN appended THEN appended[r.key] ELSE <<>>
    IN  /\ <<c, s>> \in DOMAIN readers
        /\ r.nread < r.written
        /\ readers' = LiveReaders([readers EXCEPT ![<<c, s>>].nread = @ + 1], children)
        /\ output_buffers' = MapInsert(output_buffers, r.key, PushCapped(buf, entry))
        /\ appended' = MapInsert(appended, r.key, Append(all, entry))
        /\ UNCHANGED <<processes, ports, children, spawned, pc, call, ret, budget,
                       gitvars, appvars>>

(* One turn of the loop: the next line of the pipe is read, the mutex is
   taken, and the line is pushed if a buffer is stored under the key.  Only
   this thread reads the pipe, so the read and the locked push are one step. *)
ReaderStep(c, s) ==
    LET r == readers[<<c, s>>]
        entry == Formatted(s, LineText(c, s, r.nread + 1))
    IN  /\ <<c, s>> \in DOMAIN readers
        /\ r.nread < r.written
        /\ readers' = LiveReaders([readers EXCEPT ![<<c, s>>].nread = @ + 1], children)
        /\ IF r.key \in DOMAIN output_buffers
           THEN /\ output_buffers' = [output_buffers EXCEPT ![r.key] = PushCapped(@, entry)]
                /\ appended' = [appended EXCEPT ![r.key] = Append(@, entry)]
           ELSE UNCHANGED <<output_buffers, appended>>
        /\ UNCHANGED <<processes, ports, children, spawned, pc, call, ret, budget,
                       gitvars, appvars>>

----------------------------------------------------------------------------
(* ProcessManager::stop.  The main thread sleeps 500 ms and blocks in
   child.wait(), so the call is a sequence of steps. *)

(* processes.remove(project_name), then libc::kill(child.id(), SIGTERM).
   The call has not returned: ret has no value yet, and keeps of the call
   before it only how a stop of the same name ended. *)
StopBegin(name) ==
    /\ pc = "idle"
    /\ IF name \in DOMAIN processes
       THEN LET c == processes[name]
            IN  /\ processes' = MapRemove(processes, name)
                /\ children' = IF Alive(c)
                               THEN [children EXCEPT ![c].term = TRUE]
                               ELSE children
                /\ call' = [name |-> name, child |-> c, trace |-> <<"term">>,
                            forced |-> FALSE]
                /\ pc' = "stop_sleep"
       ELSE /\ call' = [name |-> name, child |-> 0, trace |-> <<>>, forced |-> FALSE]
            /\ pc' = "stop_cleanup"
            /\ UNCHANGED <<processes, children>>
    /\ ret' = [op |-> "stop", name |-> name, val |-> None,
               note |-> IF ret.op = "stop" /\ ret.name = name THEN ret.note ELSE None]
    /\ UNCHANGED <<ports, output_buffers, readers, spawned, appended, budget, gitvars, appvars>>

(* std::thread::sleep(Duration::from_millis(500)) *)
StopSleep ==
    /\ pc = "stop_sleep"
    /\ call' = [call EXCEPT !.trace = Append(@, "sleep")]
    /\ pc' = "stop_kill"
    /\ UNCHANGED <<processes, ports, output_buffers, children, readers, spawned, ret,
                   appended, budget, gitvars, appvars>>

(* A stop that leaves out the kill *)
StopKillOmitted ==
    /\ pc = "stop_kill"
    /\ call' = [call EXCEPT !.trace = Append(@, "kill")]
    /\ pc' = "stop_wait"
    /\ UNCHANGED <<processes, ports, output_buffers, children, readers, spawned, ret,
                   appended, budget, gitvars, appvars>>

(* let _ = child.kill(): SIGKILL, which a live child cannot ignore; the
   error on a child that has exited is dropped *)
StopKill ==
    /\ pc = "stop_kill"
    /\ children' = IF Alive(call.child)
                   THEN [children EXCEPT ![call.child] = [state |-> "zombie", term |-> FALSE]]
                   ELSE children
    /\ readers' = LiveReaders(readers, children')
    /\ call' = [call EXCEPT !.trace = Append(@, "kill"), !.forced = Alive(call.child)]
    /\ pc' = "stop_wait"
    /\ UNCHANGED <<processes, ports, output_buffers, spawned, ret, appended, budget,
                   gitvars, appvars>>

(* let _ = child.wait(): blocks until the child has exited, and reaps it *)
StopWait ==
    /\ pc = "stop_wait"
    /\ Zombie(call.child)
    /\ children' = MapRemove(children, call.child)
    /\ call' = [call EXCEPT !.trace = Append(@, "wait")]
    /\ pc' = "stop_cleanup"
    /\ UNCHANGED <<processes, ports, output_buffers, readers, spawned, ret, appended, budget,
                   gitvars, appvars>>

(* A stop that forgets the buffer *)
StopCleanupKeepsBuffer ==
    /\ pc = "stop_cleanup"
    /\ ports' = MapRemove(ports, call.name)
    /\ ret' = [op |-> "stop", name |-> call.name, val |-> "Ok",
               note |-> IF call.child = 0 THEN "untracked"
                        ELSE IF call.forced THEN "killed" ELSE "exited"]
    /\ pc' = "idle"
    /\ call' = NoCall
    /\ UNCHANGED <<processes, output_buffers, appended, children, readers, spawned, budget,
                   gitvars, appvars>>

(* A stop that reports an error for a name it does not track *)
StopCleanupErrUntracked ==
    /\ pc = "stop_cleanup"
    /\ output_buffers' = MapRemove(output_buffers, call.name)
    /\ appended' = MapRemove(appended, call.name)
    /\ ports' = MapRemove(ports, call.name)
    /\ ret' = [op |-> "stop", name |-> call.name,
               val |-> IF call.child = 0 THEN "Err: not running" ELSE "Ok",
               note |-> IF call.child = 0 THEN "untracked"
                        ELSE IF call.forced THEN "killed" ELSE "exited"]
    /\ pc' = "idle"
    /\ call' = NoCall
    /\ UNCHANGED <<processes, children, readers, spawned, budget, gitvars, appvars>>

(* buffers.remove(project_name); self.ports.remove(project_name); Ok(()) *)
StopCleanup ==
    /\ pc = "stop_cleanup"
    /\ output_buffers' = MapRemove(output_buffers, call.name)
    /\ appended' = MapRemove(appended, call.name)
    /\ ports' = MapRemove(ports, call.name)
    /\ ret' = [op |-> "stop", name |-> call.name, val |-> "Ok",
               note |-> IF call.child = 0 THEN "untracked"
                        ELSE IF call.forced THEN "killed" ELSE "exited"]
    /\ pc' = "idle"
    /\ call' = NoCall
    /\ UNCHANGED <<processes, children, readers, spawned, budget, gitvars, appvars>>

----------------------------------------------------------------------------
(* An is_running that asks the OS and does not reap *)
IsRunningAsksOs(name) ==
    /\ pc = "idle"
    /\ ret' = [op |-> "is_running", name |-> name,
               val |-> (name \in DOMAIN processes /\ Alive(processes[name])),
               note |-> None]
    /\ UNCHANGED <<processes, ports, output_buffers, children, readers, spawned,
                   pc, call, appended, budget, gitvars, appvars>>

(* An is_running that reaps on query: child.try_wait(), and the entry of a
   child that has exited is removed *)
IsRunningLazyReap(name) ==
    /\ pc = "idle"
    /\ IF name \in DOMAIN processes /\ Zombie(processes[name])
       THEN /\ children' = MapRemove(children, processes[name])
            /\ processes' = MapRemove(processes, name)
            /\ ret' = [op |-> "is_running", name |-> name, val |-> FALSE, note |-> None]
       ELSE /\ ret' = [op |-> "is_running", name |-> name, val |-> is_running(name),
                       note |-> None]
            /\ UNCHANGED <<processes, children>>
    /\ UNCHANGED <<ports, output_buffers, readers, spawned, pc, call, appended, budget,
                   gitvars, appvars>>

(* ProcessManager::is_running, called by the main thread *)
IsRunning(name) ==
    /\ pc = "idle"
    /\ ret' = [op |-> "is_running", name |-> name, val |-> is_running(name), note |-> None]
    /\ UNCHANGED <<processes, ports, output_buffers, children, readers, spawned,
                   pc, call, appended, budget, gitvars, appvars>>

(* ProcessManager::reap_dead: child.try_wait() returns Ok(Some(_)) for a
   child that has exited, and reaps it *)
DeadNames == {n \in DOMAIN processes : Zombie(processes[n])}

(* A sweep that removes every entry *)
ReapDeadAll ==
    /\ pc = "idle"
    /\ children' = [c \in (DOMAIN children) \ {processes[n] : n \in DeadNames} |->
                       children[c]]
    /\ processes' = EmptyMap
    /\ ports' = EmptyMap
    /\ ret' = [op |-> "reap_dead", name |-> None, val |-> None, note |-> None]
    /\ UNCHANGED <<output_buffers, readers, spawned, pc, call, appended, budget,
                   gitvars, appvars>>

ReapDead ==
    /\ pc = "idle"
    /\ LET dead == DeadNames
       IN  /\ children' = [c \in (DOMAIN children) \ {processes[n] : n \in dead} |->
                              children[c]]
           /\ processes' = [n \in (DOMAIN processes) \ dead |-> processes[n]]
           /\ ports' = [n \in (DOMAIN ports) \ dead |-> ports[n]]
    /\ ret' = [op |-> "reap_dead", name |-> None, val |-> None, note |-> None]
    /\ UNCHANGED <<output_buffers, readers, spawned, pc, call, appended, budget,
                   gitvars, appvars>>

(* A get_output that takes the entry of the name away *)
GetOutputEvicts(name) ==
    /\ pc = "idle"
    /\ processes' = MapRemove(processes, name)
    /\ ret' = [op |-> "get_output", name |-> name, val |-> get_output(name), note |-> None]
    /\ UNCHANGED <<ports, output_buffers, children, readers, spawned,
                   pc, call, appended, budget, gitvars, appvars>>

(* ProcessManager::get_output, called by the main thread *)
GetOutput(name) ==
    /\ pc = "idle"
    /\ ret' = [op |-> "get_output", name |-> name, val |-> get_output(name), note |-> None]
    /\ UNCHANGED <<processes, ports, output_buffers, children, readers, spawned,
                   pc, call, appended, budget, gitvars, appvars>>

(* ProcessManager::running_projects: the keys, as a Vec in any order *)
RunningProjects ==
    /\ pc = "idle"
    /\ ret' = [op |-> "running_projects", name |-> None, val |-> running_projects,
               note |-> None]
    /\ UNCHANGED <<processes, ports, output_buffers, children, readers, spawned,
                   pc, call, appended, budget, gitvars, appvars>>

(* ProcessManager::get_port *)
GetPort(name) ==
    /\ pc = "idle"
    /\ ret' = [op |-> "get_port", name |-> name, val |-> get_port(name), note |-> None]
    /\ UNCHANGED <<processes, ports, output_buffers, children, readers, spawned,
                   pc, call, appended, budget, gitvars, appvars>>

----------------------------------------------------------------------------
(* The supervisor with its children and reader threads *)

Pids == 1..spawned

Next ==
    \/ \E n \in Names, cmd \in Commands, p \in PortArgs : Start(n, cmd, p)
    \/ \E n \in Names : StopBegin(n)
    \/ StopSleep
    \/ StopKill
    \/ StopWait
    \/ StopCleanup
    \/ \E n \in Names : IsRunning(n)
    \/ ReapDead
    \/ \E c \in Pids, s \in Streams : ChildEmit(c, s)
    \/ \E c \in Pids : ChildExit(c)
    \/ \E c \in Pids, s \in Streams : ReaderStep(c, s)

Spec == Init /\ [][Next]_vars

(* The supervisor with its queries: every method of ProcessManager *)
NextQueries ==
    \/ Next
    \/ \E n \in Names : GetOutput(n)
    \/ RunningProjects
    \/ \E n \in Names : GetPort(n)

SpecQueries == Init /\ [][NextQueries]_vars

(* The main thread runs on inside stop(): the sleep ends, kill() returns,
   wait() returns once the child has exited, the cleanup runs.  Nothing is
   assumed of the children and of the reader threads. *)
FairSpec ==
    /\ Spec
    /\ WF_vars(StopSleep)
    /\ WF_vars(StopKill)
    /\ WF_vars(StopWait)
    /\ WF_vars(StopCleanup)

(* The stdout reader threads are scheduled: while some of them has a line
   to read, one of them reads.  Nothing is assumed of the main thread, of
   the children and of the stderr readers. *)
FairReaderSpec ==
    /\ Spec
    /\ WF_vars(\E c \in Pids : ReaderStep(c, "stdout"))

----------------------------------------------------------------------------
(* The Controller (src/src/app.rs, src/src/tui.rs) driving the supervisor *)

(* A run_selected that starts without asking is_running *)
RunSelectedUnguarded(name, command, port) ==
    Start(name, command, port)

(* App::run_selected: if !self.process_manager.is_running(&project_name)
   { ... start_with_port(&project_name, path, &cmd, port) } *)
RunSelected(name, command, port) ==
    /\ ~is_running(name)
    /\ Start(name, command, port)

(* App::stop_selected: self.process_manager.stop(&name) *)
StopSelected(name) == StopBegin(name)

(* App::render: self.process_manager.reap_dead() at the start of a frame *)
Render == ReapDead

(* What a frame shows of the supervisor: the running count of the ports
   bar (render_ports_bar) and the log pane of the selected project
   (render_logs: get_output if is_running, else "No process running") *)
Frame(procs, bufs, sel) ==
    [running_count |-> Cardinality(DOMAIN procs),
     has_running |-> DOMAIN procs # {},
     logs_of |-> IF sel \in DOMAIN procs THEN sel ELSE None,
     logs |-> IF sel \in DOMAIN procs /\ sel \in DOMAIN bufs THEN bufs[sel] ELSE <<>>]

(* A render that draws the frame and sweeps after it *)
RenderFrameThenSweep(sel) ==
    /\ pc = "idle"
    /\ LET dead == DeadNames
       IN  /\ children' = [c \in (DOMAIN children) \ {processes[n] : n \in dead} |->
                              children[c]]
           /\ processes' = [n \in (DOMAIN processes) \ dead |-> processes[n]]
           /\ ports' = [n \in (DOMAIN ports) \ dead |-> ports[n]]
    /\ ret' = [op |-> "render", name |-> sel,
               val |-> Frame(processes, output_buffers, sel), note |-> None]
    /\ UNCHANGED <<output_buffers, readers, spawned, pc, call, appended, budget,
                   gitvars, appvars>>

(* App::render with project sel selected (None: no project): reap_dead(),
   then the frame is drawn from the tables as the sweep left them *)
RenderFrame(sel) ==
    /\ pc = "idle"
    /\ LET dead == DeadNames
       IN  /\ children' = [c \in (DOMAIN children) \ {processes[n] : n \in dead} |->
                              children[c]]
           /\ processes' = [n \in (DOMAIN processes) \ dead |-> processes[n]]
           /\ ports' = [n \in (DOMAIN ports) \ dead |-> ports[n]]
    /\ ret' = [op |-> "render", name |-> sel,
               val |-> Frame(processes', output_buffers, sel), note |-> None]
    /\ UNCHANGED <<output_buffers, readers, spawned, pc, call, appended, budget,
                   gitvars, appvars>>

(* The supervisor, running_projects and the frames of the Controller *)
NextFrame ==
    \/ Next
    \/ RunningProjects
    \/ \E sel \in Names \cup {None} : RenderFrame(sel)

SpecFrame == Init /\ [][NextFrame]_vars

NextApp ==
    \/ \E n \in Names, cmd \in Commands, p \in PortArgs : RunSelected(n, cmd, p)
    \/ \E n \in Names : StopSelected(n)
    \/ StopSleep
    \/ StopKill
    \/ StopWait
    \/ StopCleanup
    \/ Render
    \/ \E c \in Pids, s \in Streams : ChildEmit(c, s)
    \/ \E c \in Pids : ChildExit(c)
    \/ \E c \in Pids, s \in Streams : ReaderStep(c, s)

SpecApp == Init /\ [][NextApp]_vars

----------------------------------------------------------------------------
(* The output buffer at its cap.  The behaviours start where one child,
   started under "a", has written OutputCap - RingRoom lines to stdout and
   its reader has pushed them all; its readers and get_output then run in
   every interleaving. *)

RingFill == OutputCap - RingRoom

RingBuffer == [i \in 1..RingFill |-> PushStdout(LineText(1, "stdout", i))]

InitRing ==
    /\ processes = ("a" :> 1)
    /\ ports = EmptyMap
    /\ output_buffers = ("a" :> RingBuffer)
    /\ appended = ("a" :> RingBuffer)
    /\ children = (1 :> NewChild)
    /\ readers = [r \in {<<1, s>> : s \in Streams} |->
                     IF r[2] = "stdout"
                     THEN [key |-> "a", written |-> RingFill, nread |-> RingFill]
                     ELSE NewReader("a")]
    /\ spawned = 1
    /\ pc = "idle"
    /\ call = NoCall
    /\ ret = [op |-> "start", name |-> "a", val |-> "Ok", note |-> None]
    /\ budget = RingLines
    /\ GitNew
    /\ AppNew

NextRing ==
    \/ \E c \in Pids, s \in Streams : ChildEmit(c, s)
    \/ \E c \in Pids : ChildExit(c)
    \/ \E c \in Pids, s \in Streams : ReaderStep(c, s)
    \/ \E n \in Names : GetOutput(n)

SpecRing == InitRing /\ [][NextRing]_vars

----------------------------------------------------------------------------
(* The background worker (src/src/git_worker.rs) *)

(* git_status::get_status(&path).ok(): None when the directory has no .git
   entry ("Not a git repository") or a git command cannot be run *)
GetStatus(dir) ==
    IF ~dir.dotgit THEN <<>>
    ELSE IF dir.branch = None THEN <<>>
    ELSE Some(dir.branch)

(* Result<DetectedProject> *)
Ok(val) == [ok |-> TRUE, val |-> val]

Err == [ok |-> FALSE]

DetectedProject(package_manager, run_command, project_type) ==
    [package_manager |-> package_manager, run_command |-> run_command,
     project_type |-> project_type]

(* PackageManager::as_str *)
as_str(pm) ==
    CASE pm = "Pnpm" -> "pnpm"
      [] pm = "Yarn" -> "yarn"
      [] pm = "Bun" -> "bun"
      [] pm = "Npm" -> "npm"
      [] pm = "Cargo" -> "cargo"
      [] pm = "Go" -> "go"
      [] pm = "Python" -> "python"

(* ["dev", "start", "serve", "watch"].iter().find(|s| scripts.contains_key(s)) *)
ScriptPreference == <<"dev", "start", "serve", "watch">>

FindScript(scripts) ==
    LET found == SelectSeq(ScriptPreference, LAMBDA s : s \in scripts)
    IN  IF found = <<>> THEN <<>> ELSE Some(Head(found))

(* format!("{} run {}", pm.as_str(), s) *)
RunScript(pm, s) == <<as_str(pm), " run ", s>>

(* A detect_js that reports a JavaScript project without a run command
   when package.json cannot be read or parsed *)
detect_jsLenient(dir) ==
    LET pm == IF "pnpm-lock.yaml" \in dir.files THEN "Pnpm"
              ELSE IF "yarn.lock" \in dir.files THEN "Yarn"
              ELSE IF "bun.lockb" \in dir.files THEN "Bun"
              ELSE "Npm"
    IN  IF dir.package_json.content # "parsed"
        THEN Ok(DetectedProject(Some(pm), <<>>, "JavaScript"))
        ELSE LET scripts == dir.package_json.scripts
                 script == IF scripts # <<>> THEN FindScript(scripts[1]) ELSE <<>>
                 run_cmd == IF script # <<>> THEN Some(RunScript(pm, script[1])) ELSE <<>>
             IN  Ok(DetectedProject(Some(pm), run_cmd, "JavaScript"))

(* detect::detect_js: the package manager from the lockfile;
   fs::read_to_string(&pkg_path)? and serde_json::from_str(&content)?
   return the error; the run command from the scripts *)
detect_js(dir) ==
    LET pm == IF "pnpm-lock.yaml" \in dir.files THEN "Pnpm"
              ELSE IF "yarn.lock" \in dir.files THEN "Yarn"
              ELSE IF "bun.lockb" \in dir.files THEN "Bun"
              ELSE "Npm"
    IN  IF dir.package_json.content # "parsed" THEN Err
        ELSE LET scripts == dir.package_json.scripts
                 script == IF scripts # <<>> THEN FindScript(scripts[1]) ELSE <<>>
                 run_cmd == IF script # <<>> THEN Some(RunScript(pm, script[1])) ELSE <<>>
             IN  Ok(DetectedProject(Some(pm), run_cmd, "JavaScript"))

(* A detect that looks for go.mod before Cargo.toml *)
detectGoFirst(dir) ==
    IF "package.json" \in dir.files THEN detect_js(dir)
    ELSE IF "go.mod" \in dir.files
         THEN Ok(DetectedProject(Some("Go"), Some(<<"go run .">>), "Go"))
    ELSE IF "Cargo.toml" \in dir.files
         THEN Ok(DetectedProject(Some("Cargo"), Some(<<"cargo run">>), "Rust"))
    ELSE IF "manage.py" \in dir.files
         THEN Ok(DetectedProject(Some("Python"), Some(<<"python manage.py runserver">>),
                                 "Python"))
    ELSE IF "main.py" \in dir.files
         THEN Ok(DetectedProject(Some("Python"), Some(<<"python main.py">>), "Python"))
    ELSE Ok(DetectedProject(<<>>, <<>>, "Unknown"))

(* detect::detect *)
detect(dir) ==
    IF "package.json" \in dir.files THEN detect_js(dir)
    ELSE IF "Cargo.toml" \in dir.files
         THEN Ok(DetectedProject(Some("Cargo"), Some(<<"cargo run">>), "Rust"))
    ELSE IF "go.mod" \in dir.files
         THEN Ok(DetectedProject(Some("Go"), Some(<<"go run .">>), "Go"))
    ELSE IF "manage.py" \in dir.files
         THEN Ok(DetectedProject(Some("Python"), Some(<<"python manage.py runserver">>),
                                 "Python"))
    ELSE IF "main.py" \in dir.files
         THEN Ok(DetectedProject(Some("Python"), Some(<<"python main.py">>), "Python"))
    ELSE Ok(DetectedProject(<<>>, <<>>, "Unknown"))

(* Result::ok *)
ResultOk(r) == IF r.ok THEN Some(r.val) ELSE <<>>

(* detect::detect(&path).ok(): None when package.json cannot be read or
   parsed *)
Detect(dir) == ResultOk(detect(dir))

(* Duration::as_secs: the whole seconds of a duration *)
AsSecs(ms) == ms \div 1000

(* Pure (&self) queries of the cache *)
get_git_status(path) == IF path \in DOMAIN cache THEN cache[path].git_status ELSE <<>>

get_detection(path) == IF path \in DOMAIN cache THEN cache[path].detection ELSE <<>>

is_stale(path) ==
    IF path \in DOMAIN cache
    THEN AsSecs(now - cache[path].fetched_at) > StaleSecs
    ELSE TRUE

CachedEntry(result, at) ==
    [git_status |-> result.git_status, detection |-> result.detection, fetched_at |-> at]

(* The worker thread is gone, and with it the receiver of the request
   channel and the sender of the result channel, which its closure owns *)
WorkerGone == worker.pc \in {"dead", "ended"}

(* A request that unwraps the result of the send *)
RequestUnwraps(path) ==
    /\ poll.pc = "idle"
    /\ Len(requested) < MaxRequests
    /\ requested' = Append(requested, path)
    /\ IF WorkerGone
       THEN /\ poll' = [poll EXCEPT !.pc = "panicked"]
            /\ gret' = [op |-> "request", path |-> path, val |-> "panic"]
            /\ UNCHANGED request_rx
       ELSE /\ request_rx' = Append(request_rx, path)
            /\ gret' = [op |-> "request", path |-> path, val |-> None]
            /\ UNCHANGED poll
    /\ UNCHANGED <<result_rx, cache, worker, fs, now, published, ningested,
                   ticks, fschanges, procvars, appvars>>

(* GitWorker::request: let _ = self.request_tx.send(path.to_string()); the
   send fails when the receiver is gone, and the error is dropped *)
Request(path) ==
    /\ poll.pc = "idle"
    /\ Len(requested) < MaxRequests
    /\ request_rx' = IF WorkerGone THEN request_rx ELSE Append(request_rx, path)
    /\ requested' = Append(requested, path)
    /\ gret' = [op |-> "request", path |-> path, val |-> None]
    /\ UNCHANGED <<result_rx, cache, worker, poll, fs, now, published, ningested,
                   ticks, fschanges, procvars, appvars>>

(* A worker that takes the newest request of the channel *)
WorkerRecvNewest ==
    /\ worker.pc = "recv"
    /\ request_rx # <<>>
    /\ LET path == request_rx[Len(request_rx)]
       IN  worker' = [pc |-> "detect", path |-> path,
                      git_status |-> IF fs[path].dotgit THEN GetStatus(fs[path]) ELSE <<>>]
    /\ request_rx' = SubSeq(request_rx, 1, Len(request_rx) - 1)
    /\ UNCHANGED <<result_rx, cache, poll, gret, fs, now, requested, published,
                   ningested, ticks, fschanges, procvars, appvars>>

(* The worker thread: while let Ok(path_str) = request_rx.recv(), then the
   git probe, run only if path.join(".git").exists() *)
WorkerRecv ==
    /\ worker.pc = "recv"
    /\ request_rx # <<>>
    /\ LET path == Head(request_rx)
       IN  worker' = [pc |-> "detect", path |-> path,
                      git_status |-> IF fs[path].dotgit THEN GetStatus(fs[path]) ELSE <<>>]
    /\ request_rx' = Tail(request_rx)
    /\ UNCHANGED <<result_rx, cache, poll, gret, fs, now, requested, published,
                   ningested, ticks, fschanges, procvars, appvars>>

(* A worker that ends when a probe fails *)
WorkerSendStopsOnError ==
    /\ worker.pc = "detect"
    /\ LET result == [path |-> worker.path, git_status |-> worker.git_status,
                      detection |-> Detect(fs[worker.path])]
       IN  IF result.detection = <<>> \/ result.git_status = <<>>
           THEN /\ worker' = [WorkerIdle EXCEPT !.pc = "ended"]
                /\ UNCHANGED <<result_rx, published>>
           ELSE /\ result_rx' = Append(result_rx, result)
                /\ published' = Append(published, result)
                /\ worker' = WorkerIdle
    /\ UNCHANGED <<request_rx, cache, poll, gret, fs, now, requested, ningested,
                   ticks, fschanges, procvars, appvars>>

(* A worker that runs detect only where it has a git status *)
WorkerSendDetectsRepos ==
    /\ worker.pc = "detect"
    /\ LET result == [path |-> worker.path, git_status |-> worker.git_status,
                      detection |-> IF worker.git_status = <<>> THEN <<>>
                                    ELSE Detect(fs[worker.path])]
       IN  IF poll.pc = "dropped"
           THEN UNCHANGED <<result_rx, published>>
           ELSE /\ result_rx' = Append(result_rx, result)
                /\ published' = Append(published, result)
    /\ worker' = WorkerIdle
    /\ UNCHANGED <<request_rx, cache, poll, gret, fs, now, requested, ningested,
                   ticks, fschanges, procvars, appvars>>

(* A worker that leaves its loop when the send of a result fails *)
WorkerSendBreaksOnError ==
    /\ worker.pc = "detect"
    /\ LET result == [path |-> worker.path, git_status |-> worker.git_status,
                      detection |-> Detect(fs[worker.path])]
       IN  IF poll.pc = "dropped"
           THEN /\ worker' = [WorkerIdle EXCEPT !.pc = "ended"]
                /\ UNCHANGED <<result_rx, published>>
           ELSE /\ result_rx' = Append(result_rx, result)
                /\ published' = Append(published, result)
                /\ worker' = WorkerIdle
    /\ UNCHANGED <<request_rx, cache, poll, gret, fs, now, requested, ningested,
                   ticks, fschanges, procvars, appvars>>

(* detect::detect(&path).ok(), then let _ = result_tx.send(GitStatusResult
   { path, git_status, detection }), and back to recv(); the send fails
   when the GitWorker, which owns the receiver, is dropped, and the error is
   dropped *)
WorkerSend ==
    /\ worker.pc = "detect"
    /\ LET result == [path |-> worker.path, git_status |-> worker.git_status,
                      detection |-> Detect(fs[worker.path])]
       IN  IF poll.pc = "dropped"
           THEN UNCHANGED <<result_rx, published>>
           ELSE /\ result_rx' = Append(result_rx, result)
                /\ published' = Append(published, result)
    /\ worker' = WorkerIdle
    /\ UNCHANGED <<request_rx, cache, poll, gret, fs, now, requested, ningested,
                   ticks, fschanges, procvars, appvars>>

(* The worker thread dies in a probe (a panic unwinds its closure): the
   receiver of the request channel is dropped with the requests in it, and
   the sender of the result channel is dropped; the results sent before
   stay in the channel *)
WorkerPanics ==
    /\ worker.pc \in {"recv", "detect"}
    /\ worker' = [WorkerIdle EXCEPT !.pc = "dead"]
    /\ request_rx' = <<>>
    /\ UNCHANGED <<result_rx, cache, poll, gret, fs, now, requested, published,
                   ningested, ticks, fschanges, procvars, appvars>>

(* request_rx.recv() returns Err once the channel is empty and its sender
   is dropped: the while let loop ends and the thread terminates *)
WorkerExit ==
    /\ worker.pc = "recv"
    /\ request_rx = <<>>
    /\ poll.pc = "dropped"
    /\ worker' = [WorkerIdle EXCEPT !.pc = "ended"]
    /\ UNCHANGED <<request_rx, result_rx, cache, poll, gret, fs, now, requested,
                   published, ningested, ticks, fschanges, procvars, appvars>>

(* The GitWorker is dropped: request_tx goes, which closes the request
   channel and leaves the requests in it to the worker, and result_rx and
   the cache go with what they hold *)
DropGitWorker ==
    /\ poll.pc = "idle"
    /\ poll' = [PollIdle EXCEPT !.pc = "dropped"]
    /\ result_rx' = <<>>
    /\ cache' = EmptyMap
    /\ gret' = [op |-> "drop", path |-> None, val |-> None]
    /\ UNCHANGED <<request_rx, worker, fs, now, requested, published, ningested,
                   ticks, fschanges, procvars, appvars>>

(* GitWorker::poll: let mut updated = false *)
PollBegin ==
    /\ poll.pc = "idle"
    /\ poll' = [pc |-> "poll", updated |-> FALSE, first |-> ningested,
                avail |-> Len(result_rx)]
    /\ UNCHANGED <<request_rx, result_rx, cache, worker, gret, fs, now, requested,
                   published, ningested, ticks, fschanges, procvars, appvars>>

(* A poll that keeps a cached field where the result has none *)
PollIngestMerging ==
    /\ poll.pc = "poll"
    /\ result_rx # <<>>
    /\ LET result == Head(result_rx)
           fresh == CachedEntry(result, now)
           merged == IF result.path \in DOMAIN cache
                     THEN [fresh EXCEPT
                             !.git_status = IF @ = <<>> THEN cache[result.path].git_status
                                            ELSE @,
                             !.detection = IF @ = <<>> THEN cache[result.path].detection
                                           ELSE @]
                     ELSE fresh
       IN  cache' = MapInsert(cache, result.path, merged)
    /\ result_rx' = Tail(result_rx)
    /\ ningested' = ningested + 1
    /\ poll' = [poll EXCEPT !.updated = TRUE]
    /\ UNCHANGED <<request_rx, worker, gret, fs, now, requested, published,
                   ticks, fschanges, procvars, appvars>>

(* while let Ok(result) = self.result_rx.try_recv() { self.cache.insert(
   result.path, CachedEntry { .., fetched_at: Instant::now() });
   updated = true; } *)
PollIngest ==
    /\ poll.pc = "poll"
    /\ result_rx # <<>>
    /\ LET result == Head(result_rx)
       IN  cache' = MapInsert(cache, result.path, CachedEntry(result, now))
    /\ result_rx' = Tail(result_rx)
    /\ ningested' = ningested + 1
    /\ poll' = [poll EXCEPT !.updated = TRUE]
    /\ UNCHANGED <<request_rx, worker, gret, fs, now, requested, published,
                   ticks, fschanges, procvars, appvars>>

(* A poll that returns after the first result *)
PollReturnAfterOne ==
    /\ poll.pc = "poll"
    /\ result_rx = <<>> \/ poll.updated
    /\ gret' = [op |-> "poll", path |-> None, val |-> poll.updated]
    /\ poll' = PollIdle
    /\ UNCHANGED <<request_rx, result_rx, cache, worker, fs, now, requested,
                   published, ningested, ticks, fschanges, procvars, appvars>>

(* try_recv() finds the channel empty: the loop ends and poll returns
   updated *)
PollReturn ==
    /\ poll.pc = "poll"
    /\ result_rx = <<>>
    /\ gret' = [op |-> "poll", path |-> None, val |-> poll.updated]
    /\ poll' = PollIdle
    /\ UNCHANGED <<request_rx, result_rx, cache, worker, fs, now, requested,
                   published, ningested, ticks, fschanges, procvars, appvars>>

(* A get_git_status that drops an entry it finds stale *)
GetGitStatusExpiring(path) ==
    /\ poll.pc = "idle"
    /\ IF path \in DOMAIN cache /\ is_stale(path)
       THEN /\ cache' = MapRemove(cache, path)
            /\ gret' = [op |-> "get_git_status", path |-> path, val |-> <<>>]
       ELSE /\ gret' = [op |-> "get_git_status", path |-> path, val |-> get_git_status(path)]
            /\ UNCHANGED cache
    /\ UNCHANGED <<request_rx, result_rx, worker, poll, fs, now, requested,
                   published, ningested, ticks, fschanges, procvars, appvars>>

(* GitWorker::get_git_status, called by the main thread *)
GetGitStatus(path) ==
    /\ poll.pc = "idle"
    /\ gret' = [op |-> "get_git_status", path |-> path, val |-> get_git_status(path)]
    /\ UNCHANGED <<request_rx, result_rx, cache, worker, poll, fs, now, requested,
                   published, ningested, ticks, fschanges, procvars, appvars>>

(* GitWorker::get_detection, called by the main thread *)
GetDetection(path) ==
    /\ poll.pc = "idle"
    /\ gret' = [op |-> "get_detection", path |-> path, val |-> get_detection(path)]
    /\ UNCHANGED <<request_rx, result_rx, cache, worker, poll, fs, now, requested,
                   published, ningested, ticks, fschanges, procvars, appvars>>

(* GitWorker::is_stale, called by the main thread *)
IsStale(path) ==
    /\ poll.pc = "idle"
    /\ gret' = [op |-> "is_stale", path |-> path, val |-> is_stale(path)]
    /\ UNCHANGED <<request_rx, result_rx, cache, worker, poll, fs, now, requested,
                   published, ningested, ticks, fschanges, procvars, appvars>>

(* An invalidate_all that drops only the entries that are stale *)
InvalidateAllKeepsFresh ==
    /\ poll.pc = "idle"
    /\ cache' = [path \in {x \in DOMAIN cache : ~is_stale(x)} |-> cache[path]]
    /\ gret' = [op |-> "invalidate_all", path |-> None, val |-> None]
    /\ UNCHANGED <<request_rx, result_rx, worker, poll, fs, now, requested,
                   published, ningested, ticks, fschanges, procvars, appvars>>

(* An invalidate_all that also empties the result channel *)
InvalidateAllDrains ==
    /\ poll.pc = "idle"
    /\ cache' = EmptyMap
    /\ result_rx' = <<>>
    /\ gret' = [op |-> "invalidate_all", path |-> None, val |-> None]
    /\ UNCHANGED <<request_rx, worker, poll, fs, now, requested,
                   published, ningested, ticks, fschanges, procvars, appvars>>

(* GitWorker::invalidate_all: self.cache.clear() *)
InvalidateAll ==
    /\ poll.pc = "idle"
    /\ cache' = EmptyMap
    /\ gret' = [op |-> "invalidate_all", path |-> None, val |-> None]
    /\ UNCHANGED <<request_rx, result_rx, worker, poll, fs, now, requested,
                   published, ningested, ticks, fschanges, procvars, appvars>>

(* Time passes *)
Tick(ms) ==
    /\ ticks < MaxTicks
    /\ ticks' = ticks + 1
    /\ now' = now + ms
    /\ UNCHANGED <<request_rx, result_rx, cache, worker, poll, gret, fs, requested,
                   published, ningested, fschanges, procvars, appvars>>

(* The user or a tool changes what a directory holds *)
FsChange(path, dir) ==
    /\ fschanges < MaxFsChanges
    /\ fs[path] # dir
    /\ fschanges' = fschanges + 1
    /\ fs' = [fs EXCEPT ![path] = dir]
    /\ UNCHANGED <<request_rx, result_rx, cache, worker, poll, gret, now, requested,
                   published, ningested, ticks, procvars, appvars>>

(* The request and result pipeline, over directories that change *)
NextGit ==
    \/ \E path \in Paths : Request(path)
    \/ WorkerRecv
    \/ WorkerSend
    \/ PollBegin
    \/ PollIngest
    \/ PollReturn
    \/ InvalidateAll
    \/ \E path \in Paths, dir \in Dirs : FsChange(path, dir)

SpecGit == Init /\ [][NextGit]_vars

(* The cache and its reads, as time passes *)
NextCache ==
    \/ \E path \in Paths : Request(path)
    \/ WorkerRecv
    \/ WorkerSend
    \/ PollBegin
    \/ PollIngest
    \/ PollReturn
    \/ InvalidateAll
    \/ \E path \in Paths : GetGitStatus(path)
    \/ \E path \in Paths : GetDetection(path)
    \/ \E path \in Paths : IsStale(path)
    \/ \E ms \in Advances : Tick(ms)

SpecCache == Init /\ [][NextCache]_vars

(* The worker thread is scheduled, and the main thread runs on inside
   poll() *)
FairGit ==
    /\ SpecGit
    /\ WF_vars(WorkerRecv)
    /\ WF_vars(WorkerSend)
    /\ WF_vars(PollIngest)
    /\ WF_vars(PollReturn)

(* detect::detect called on a directory *)
DetectPath(path) ==
    /\ poll.pc = "idle"
    /\ gret' = [op |-> "detect", path |-> path, val |-> detect(fs[path])]
    /\ UNCHANGED <<request_rx, result_rx, cache, worker, poll, fs, now, requested,
                   published, ningested, ticks, fschanges, procvars, appvars>>

(* The files detect looks for, and the names of scripts in package.json *)
MarkerFiles == {"package.json", "Cargo.toml", "go.mod", "manage.py", "main.py"}

Lockfiles == {"pnpm-lock.yaml", "yarn.lock", "bun.lockb"}

ScriptNames == {"dev", "start", "serve", "watch", "build"}

(* Every directory over these files: package.json, where it is there,
   unreadable, malformed, without scripts, or with any set of scripts *)
DetectDirs ==
    { Dir(FALSE, None, files, package_json) :
        files \in SUBSET (MarkerFiles \cup Lockfiles),
        package_json \in {NoPackageJson, Unreadable, Malformed, PackageJson(<<>>)}
                         \cup {PackageJson(Some(scripts)) : scripts \in SUBSET ScriptNames} }

WellFormedDir(dir) ==
    (dir.package_json.content = "absent") <=> ("package.json" \notin dir.files)

(* detect on any directory under "p" *)
InitDetect ==
    /\ ProcessManagerNew
    /\ AppNew
    /\ \E dir \in DetectDirs :
          /\ WellFormedDir(dir)
          /\ GitNewOn(("p" :> dir) @@ ("q" :> FirstDirs["q"]))

NextDetect == \E path \in Paths : DetectPath(path)

SpecDetect == InitDetect /\ [][NextDetect]_vars

(* The GitWorker with a worker thread that may die at any point *)
NextDegraded ==
    \/ \E path \in Paths : Request(path)
    \/ WorkerRecv
    \/ WorkerSend
    \/ WorkerPanics
    \/ PollBegin
    \/ PollIngest
    \/ PollReturn
    \/ InvalidateAll
    \/ \E path \in Paths : GetGitStatus(path)
    \/ \E path \in Paths : GetDetection(path)
    \/ \E path \in Paths : IsStale(path)

SpecDegraded == Init /\ [][NextDegraded]_vars

(* The main thread runs on inside poll(); nothing is assumed of the worker *)
FairDegraded ==
    /\ SpecDegraded
    /\ WF_vars(PollIngest)
    /\ WF_vars(PollReturn)

(* The GitWorker up to and after its drop *)
NextShutdown ==
    \/ \E path \in Paths : Request(path)
    \/ WorkerRecv
    \/ WorkerSend
    \/ WorkerExit
    \/ PollBegin
    \/ PollIngest
    \/ PollReturn
    \/ DropGitWorker

SpecShutdown == Init /\ [][NextShutdown]_vars

(* The worker thread is scheduled, and every probe terminates *)
FairShutdown ==
    /\ SpecShutdown
    /\ WF_vars(WorkerRecv)
    /\ WF_vars(WorkerSend)
    /\ WF_vars(WorkerExit)

----------------------------------------------------------------------------
(* Quit (src/src/tui.rs, src/src/app.rs) *)

(* Tui::run: key q outside an input dialog, App::request_quit *)
RequestQuit ==
    /\ tui.pc = "run"
    /\ pc = "idle"
    /\ input_mode = "Normal"
    /\ ~should_quit
    /\ input_mode' = "ConfirmQuit"
    /\ UNCHANGED <<store, selected, selected_detection, selected_git_status,
                   should_quit, tui, procvars, gitvars>>

(* App::handle_key in InputMode::ConfirmQuit: n, N or Esc *)
CancelQuit ==
    /\ tui.pc = "run"
    /\ pc = "idle"
    /\ input_mode = "ConfirmQuit"
    /\ ~should_quit
    /\ input_mode' = "Normal"
    /\ UNCHANGED <<store, selected, selected_detection, selected_git_status,
                   should_quit, tui, procvars, gitvars>>

(* App::handle_key in InputMode::ConfirmQuit: y or Y *)
ConfirmQuit ==
    /\ tui.pc = "run"
    /\ pc = "idle"
    /\ input_mode = "ConfirmQuit"
    /\ ~should_quit
    /\ should_quit' = TRUE
    /\ UNCHANGED <<store, selected, selected_detection, selected_git_status,
                   input_mode, tui, procvars, gitvars>>

(* The orders in which a HashMap may hand out its keys *)
Orders(S) == {s \in [1..Cardinality(S) -> S] : \A n \in S : \E i \in DOMAIN s : s[i] = n}

(* Tui::run: after the frame is drawn (render has called reap_dead),
   if app.should_quit() { for name in app.process_manager.running_projects() *)
TuiQuit ==
    /\ tui.pc = "run"
    /\ should_quit
    /\ pc = "idle"
    /\ ret.op = "reap_dead"
    /\ \E names \in Orders(running_projects) :
          tui' = [pc |-> "stopping", names |-> names, name |-> None]
    /\ UNCHANGED <<store, selected, selected_detection, selected_git_status,
                   input_mode, should_quit, procvars, gitvars>>

(* The stop of tui.name has returned, or none was called yet *)
StopReturned ==
    /\ pc = "idle"
    /\ tui.name # None => (ret.op = "stop" /\ ret.name = tui.name)

(* The for loop takes the next name *)
TuiNextName ==
    /\ tui.pc = "stopping"
    /\ StopReturned
    /\ tui.names # <<>>
    /\ tui' = [tui EXCEPT !.name = Head(tui.names), !.names = Tail(tui.names)]
    /\ UNCHANGED <<store, selected, selected_detection, selected_git_status,
                   input_mode, should_quit, procvars, gitvars>>

(* let _ = app.process_manager.stop(&name) *)
TuiStop ==
    /\ tui.pc = "stopping"
    /\ tui.name # None
    /\ ~(ret.op = "stop" /\ ret.name = tui.name)
    /\ StopBegin(tui.name)

(* A loop that breaks after its first stop *)
TuiBreakAfterFirst ==
    /\ tui.pc = "stopping"
    /\ StopReturned
    /\ tui.names = <<>> \/ tui.name # None
    /\ tui' = [pc |-> "exited", names |-> <<>>, name |-> None]
    /\ UNCHANGED <<store, selected, selected_detection, selected_git_status,
                   input_mode, should_quit, procvars, gitvars>>

(* The for loop is through: break, and run returns Ok(()) *)
TuiBreak ==
    /\ tui.pc = "stopping"
    /\ StopReturned
    /\ tui.names = <<>>
    /\ tui' = [pc |-> "exited", names |-> <<>>, name |-> None]
    /\ UNCHANGED <<store, selected, selected_detection, selected_git_status,
                   input_mode, should_quit, procvars, gitvars>>

(* Tui::run reads a key, and App::handle_key is in InputMode::Normal *)
KeyInNormal == tui.pc = "run" /\ input_mode = "Normal" /\ ~should_quit

(* The Controller in Tui::run: keys r and x in InputMode::Normal, a frame
   per turn of the loop, and quit *)
NextQuit ==
    \/ \E n \in Names, cmd \in Commands, p \in PortArgs :
          KeyInNormal /\ RunSelected(n, cmd, p)
    \/ \E n \in Names : KeyInNormal /\ StopSelected(n)
    \/ StopSleep
    \/ StopKill
    \/ StopWait
    \/ StopCleanup
    \/ tui.pc = "run" /\ Render
    \/ RequestQuit
    \/ CancelQuit
    \/ ConfirmQuit
    \/ TuiQuit
    \/ TuiNextName
    \/ TuiStop
    \/ TuiBreak
    \/ \E c \in Pids, s \in Streams : ChildEmit(c, s)
    \/ \E c \in Pids : ChildExit(c)
    \/ \E c \in Pids, s \in Streams : ReaderStep(c, s)

SpecQuit == Init /\ [][NextQuit]_vars

----------------------------------------------------------------------------
(* ProjectStore (src/src/store.rs) *)

(* Project names: two that differ in ASCII case, and two that differ in the
   case of a letter outside ASCII (E with acute accent) *)
StoreNames == {"a", "A", "b", "E-acute", "e-acute"}

(* str::eq_ignore_ascii_case compares with the ASCII letters folded *)
to_ascii_lowercase(name) ==
    CASE name = "A" -> "a"
      [] OTHER -> name

eq_ignore_ascii_case(x, y) == to_ascii_lowercase(x) = to_ascii_lowercase(y)

(* str::to_lowercase folds every letter *)
to_lowercase(name) ==
    CASE name = "A" -> "a"
      [] name = "E-acute" -> "e-acute"
      [] OTHER -> name

(* String::cmp on the lower-cased names: byte-wise, so that the ASCII
   letters come first *)
NameOrder == <<"a", "b", "e-acute">>

Rank(lower) == CHOOSE i \in 1..Len(NameOrder) : NameOrder[i] = lower

ProjectEntry(name, path) == [name |-> name, path |-> path]

(* slice::sort_by, a stable sort: an entry goes behind the entries whose
   key is not greater *)
InsertByName(sorted, entry) ==
    LET before == SelectSeq(sorted, LAMBDA e :
                      Rank(to_lowercase(e.name)) <= Rank(to_lowercase(entry.name)))
        after == SelectSeq(sorted, LAMBDA e :
                      Rank(to_lowercase(e.name)) > Rank(to_lowercase(entry.name)))
    IN  before \o <<entry>> \o after

RECURSIVE sort_projects(_)
sort_projects(projects) ==
    IF projects = <<>> THEN <<>>
    ELSE InsertByName(sort_projects(SubSeq(projects, 1, Len(projects) - 1)),
                      projects[Len(projects)])

(* An add that skips only an entry of the very same name *)
addCaseSensitive(projects, entry) ==
    IF \E i \in 1..Len(projects) : projects[i].name = entry.name
    THEN projects
    ELSE sort_projects(Append(projects, entry))

(* ProjectStore::add *)
add(projects, entry) ==
    IF \E i \in 1..Len(projects) : eq_ignore_ascii_case(projects[i].name, entry.name)
    THEN projects
    ELSE sort_projects(Append(projects, entry))

(* ProjectStore::remove *)
remove(projects, name) ==
    SelectSeq(projects, LAMBDA p : ~eq_ignore_ascii_case(p.name, name))

StoreAdd(entry) ==
    /\ store' = add(store, entry)
    /\ UNCHANGED <<selected, selected_detection, selected_git_status, input_mode,
                   should_quit, tui, procvars, gitvars>>

StoreRemove(name) ==
    /\ store' = remove(store, name)
    /\ UNCHANGED <<selected, selected_detection, selected_git_status, input_mode,
                   should_quit, tui, procvars, gitvars>>

NextStore ==
    \/ \E name \in StoreNames, path \in Paths : StoreAdd(ProjectEntry(name, path))
    \/ \E name \in StoreNames : StoreRemove(name)

SpecStore == Init /\ [][NextStore]_vars

----------------------------------------------------------------------------
(* The Controller's project list (src/src/app.rs) *)

(* Path::new(&project.path).exists() *)
PathExists(path) == path \in DOMAIN fs

(* App::update_selected_details: what it leaves in selected_detection and
   selected_git_status for a store and a selection; it calls
   detect::detect(path).ok() and git_status::get_status(path).ok() itself *)
update_selected_details(projects, sel) ==
    IF /\ sel # <<>>
       /\ sel[1] < Len(projects)
       /\ projects[sel[1] + 1].path # ""
       /\ PathExists(projects[sel[1] + 1].path)
    THEN [detection |-> Detect(fs[projects[sel[1] + 1].path]),
          git_status |-> GetStatus(fs[projects[sel[1] + 1].path])]
    ELSE [detection |-> <<>>, git_status |-> <<>>]

(* Tui::run hands a key to App::handle_key, which is in InputMode::Normal *)
NormalKey ==
    /\ tui.pc = "run"
    /\ pc = "idle"
    /\ input_mode = "Normal"
    /\ ~should_quit

(* App::next *)
NextProject ==
    /\ NormalKey
    /\ store # <<>>
    /\ LET i == IF selected # <<>> THEN (selected[1] + 1) % Len(store) ELSE 0
       IN  /\ selected' = Some(i)
           /\ selected_detection' = update_selected_details(store, Some(i)).detection
           /\ selected_git_status' = update_selected_details(store, Some(i)).git_status
    /\ UNCHANGED <<store, input_mode, should_quit, tui, procvars, gitvars>>

(* App::previous *)
PreviousProject ==
    /\ NormalKey
    /\ store # <<>>
    /\ LET i == IF selected # <<>>
                THEN IF selected[1] = 0 THEN Len(store) - 1 ELSE selected[1] - 1
                ELSE 0
       IN  /\ selected' = Some(i)
           /\ selected_detection' = update_selected_details(store, Some(i)).detection
           /\ selected_git_status' = update_selected_details(store, Some(i)).git_status
    /\ UNCHANGED <<store, input_mode, should_quit, tui, procvars, gitvars>>

(* KeyCode::Enter => self.update_selected_details() *)
EnterKey ==
    /\ NormalKey
    /\ selected_detection' = update_selected_details(store, selected).detection
    /\ selected_git_status' = update_selected_details(store, selected).git_status
    /\ UNCHANGED <<store, selected, input_mode, should_quit, tui, procvars, gitvars>>

(* App::delete_selected *)
DeleteSelected ==
    /\ NormalKey
    /\ selected # <<>>
    /\ selected[1] < Len(store)
    /\ LET left == remove(store, store[selected[1] + 1].name)
           sel == IF left = <<>> THEN <<>>
                  ELSE IF selected[1] >= Len(left) THEN Some(Len(left) - 1)
                  ELSE selected
       IN  /\ store' = left
           /\ selected' = sel
           /\ selected_detection' = update_selected_details(left, sel).detection
           /\ selected_git_status' = update_selected_details(left, sel).git_status
    /\ UNCHANGED <<input_mode, should_quit, tui, procvars, gitvars>>

(* KeyCode::Char('i'): the import dialog opens *)
ImportKey ==
    /\ NormalKey
    /\ input_mode' = "ImportPath"
    /\ UNCHANGED <<store, selected, selected_detection, selected_git_status,
                   should_quit, tui, procvars, gitvars>>

(* The import dialog is closed without a path *)
ImportCancel ==
    /\ tui.pc = "run"
    /\ pc = "idle"
    /\ input_mode = "ImportPath"
    /\ input_mode' = "Normal"
    /\ UNCHANGED <<store, selected, selected_detection, selected_git_status,
                   should_quit, tui, procvars, gitvars>>

(* path.file_name(): the directory under "p" is named A, the one under "q"
   is named b *)
file_name(path) == IF path = "p" THEN "A" ELSE "b"

(* p.name == name *)
Position(projects, name) ==
    LET found == {i \in 1..Len(projects) : projects[i].name = name}
    IN  IF found = {} THEN <<>>
        ELSE Some((CHOOSE i \in found : \A j \in found : i <= j) - 1)

(* The import dialog hands over a path: App::import_from_path, then
   input_mode = InputMode::Normal *)
ImportFromPath(path) ==
    /\ tui.pc = "run"
    /\ pc = "idle"
    /\ input_mode = "ImportPath"
    /\ PathExists(path)
    /\ LET name == file_name(path)
           added == add(store, ProjectEntry(name, path))
           sel == IF Position(added, name) # <<>> THEN Position(added, name) ELSE selected
       IN  /\ store' = added
           /\ selected' = sel
           /\ selected_detection' = update_selected_details(added, sel).detection
           /\ selected_git_status' = update_selected_details(added, sel).git_status
    /\ input_mode' = "Normal"
    /\ UNCHANGED <<should_quit, tui, procvars, gitvars>>

(* The store as it was loaded: a project with a directory and one
   without *)
LoadedStore == <<ProjectEntry("a", "p"), ProjectEntry("e-acute", "")>>

(* App::new on the loaded store: the first project is selected, and
   update_selected_details has run *)
InitUi ==
    /\ ProcessManagerNew
    /\ GitNew
    /\ store = LoadedStore
    /\ selected = Some(0)
    /\ selected_detection = update_selected_details(LoadedStore, Some(0)).detection
    /\ selected_git_status = update_selected_details(LoadedStore, Some(0)).git_status
    /\ input_mode = "Normal"
    /\ should_quit = FALSE
    /\ tui = TuiRun

NextUi ==
    \/ NextProject
    \/ PreviousProject
    \/ EnterKey
    \/ DeleteSelected
    \/ ImportKey
    \/ ImportCancel
    \/ \E path \in Paths : ImportFromPath(path)
    \/ \E path \in Paths, dir \in Dirs : FsChange(path, dir)

SpecUi == InitUi /\ [][NextUi]_vars

(* App::run_selected on the selected project: nothing without a directory
   that exists; the command is the project's run_command or the detected
   one, the port the one find_available_port hands out for a JavaScript
   project *)
RunSelectedProject ==
    /\ NormalKey
    /\ selected # <<>>
    /\ selected[1] < Len(store)
    /\ LET project == store[selected[1] + 1]
       IN  /\ project.path # ""
           /\ PathExists(project.path)
           /\ \E cmd \in Commands, p \in PortArgs : RunSelected(project.name, cmd, p)

(* App::stop_selected *)
StopSelectedProject ==
    /\ NormalKey
    /\ selected # <<>>
    /\ selected[1] < Len(store)
    /\ StopSelected(store[selected[1] + 1].name)

(* What ProjectStore::load may find in the file: what the last save wrote,
   or that without a project another program has taken out *)
StoreFiles == {store} \cup {remove(store, store[i].name) : i \in 1..Len(store)}

(* App::full_refresh: the store is reloaded from its file; the selection
   stays as it is *)
FullRefresh ==
    /\ NormalKey
    /\ \E reloaded \in StoreFiles :
          /\ store' = reloaded
          /\ selected_detection' = update_selected_details(reloaded, selected).detection
          /\ selected_git_status' = update_selected_details(reloaded, selected).git_status
    /\ UNCHANGED <<selected, input_mode, should_quit, tui, procvars, gitvars>>

(* The Controller with its project list: keys j, k, r, x, d and F5, and a
   frame per turn of the loop *)
NextProjects ==
    \/ NextProject
    \/ PreviousProject
    \/ RunSelectedProject
    \/ StopSelectedProject
    \/ StopSleep
    \/ StopKill
    \/ StopWait
    \/ StopCleanup
    \/ Render
    \/ DeleteSelected
    \/ FullRefresh
    \/ \E c \in Pids, s \in Streams : ChildEmit(c, s)
    \/ \E c \in Pids : ChildExit(c)
    \/ \E c \in Pids, s \in Streams : ReaderStep(c, s)

SpecProjects == InitUi /\ [][NextProjects]_vars

----------------------------------------------------------------------------
(* Properties *)

LastN(s, k) == IF Len(s) > k THEN SubSeq(s, Len(s) - k + 1, Len(s)) ELSE s

(* C1: get_output never returns more than 1000 lines, and a buffer holds
   exactly the lines pushed to it, the oldest evicted first: once more than
   1000 were pushed, the 1000 most recently pushed in push order. *)
C1_OutputBufferBound ==
    /\ \A n \in Names :
          /\ Len(get_output(n)) <= OutputCap
          /\ n \in DOMAIN output_buffers =>
                get_output(n) = LastN(appended[n], OutputCap)
    /\ ret.op = "get_output" => Len(ret.val) <= OutputCap

C1_Witness ==
    /\ Len(appended["a"]) > OutputCap + 1
    /\ ret.op = "get_output"
    /\ ret.name = "a"
    /\ ret.val = LastN(appended["a"], OutputCap)
    /\ \E i \in 1..Len(ret.val) : ret.val[i].prefix = "[stderr] "
    /\ ret.val[Len(ret.val)].prefix = ""

(* C2: after stop(name) has returned, name is not running, is not among
   the running projects, has no output and has no port, whether the child
   had exited by the time of the kill or had to be killed. *)
C2_AfterStop ==
    (pc = "idle" /\ ret.op = "stop") =>
        /\ ~is_running(ret.name)
        /\ ret.name \notin running_projects
        /\ get_output(ret.name) = <<>>
        /\ get_port(ret.name) = <<>>

(* A stop that had to kill a child whose reader is still draining its pipe *)
C2_Witness ==
    /\ pc = "idle"
    /\ ret.op = "stop"
    /\ ret.note = "killed"
    /\ \E r \in DOMAIN readers : readers[r].key = ret.name

(* C3: stop(name) on a name without a tracked process returns Ok and
   changes neither the process table nor the port table nor what
   get_output returns for any name. *)
C3_StopUntrackedNoEffect ==
    [][ /\ \A n \in Names :
              (StopBegin(n) /\ n \notin DOMAIN processes) => UNCHANGED tables
        /\ (StopCleanup /\ call.child = 0) =>
              /\ processes' = processes
              /\ ports' = ports
              /\ \A n \in Names : get_output(n)' = get_output(n)
              /\ ret'.val = "Ok" ]_vars

(* C4: a stop always returns Ok, and a second stop(name) right after a
   stop(name) changes nothing in the three tables. *)
C4_StopTwice ==
    [][ /\ StopCleanup => ret'.val = "Ok"
        /\ \A n \in Names :
              (StopBegin(n) /\ ret.op = "stop" /\ ret.name = n) =>
                  (UNCHANGED tables /\ call'.child = 0)
        /\ (StopCleanup /\ ret.note # None) => UNCHANGED tables ]_vars

(* The second stop of a name whose first stop killed the child *)
C4_Witness ==
    /\ pc = "stop_cleanup"
    /\ ret.op = "stop"
    /\ ret.name = call.name
    /\ ret.val = None
    /\ ret.note = "killed"

(* C5: a stop of a tracked process has sent the terminate signal, slept,
   killed and waited, in this order, and its child is reaped, when it comes
   to its cleanup; and every stop returns. *)
C5_StopOrderAndReturn ==
    /\ [](pc = "stop_sleep" => call.trace = <<"term">>)
    /\ [](pc = "stop_kill" => call.trace = <<"term", "sleep">>)
    /\ [](pc = "stop_wait" => call.trace = <<"term", "sleep", "kill">>)
    /\ []((pc = "stop_cleanup" /\ call.child # 0) =>
             /\ call.trace = <<"term", "sleep", "kill", "wait">>
             /\ Reaped(call.child))
    /\ [](pc # "idle" => <>(pc = "idle"))

(* A child that ignored the terminate signal, killed and reaped *)
C5_Witness ==
    /\ pc = "stop_cleanup"
    /\ call.forced
    /\ Reaped(call.child)

(* C6 as stated: is_running(name) is true iff name is tracked and its
   process has not exited. *)
C6_IsRunningAsksOs ==
    [][ \A n \in Names :
           IsRunning(n) =>
               ret'.val = (n \in DOMAIN processes /\ Alive(processes[n])) ]_vars

(* C6 as amended: is_running(name) is true iff an entry exists for name,
   whether or not its process has exited. *)
C6_IsRunningIsTracked ==
    [][ \A n \in Names : IsRunning(n) => ret'.val = (n \in DOMAIN processes) ]_vars

(* is_running answers true for a tracked process that has exited *)
C6_Witness ==
    /\ ret.op = "is_running"
    /\ ret.val = TRUE
    /\ ret.name \in DOMAIN processes
    /\ Zombie(processes[ret.name])

(* C7 as stated: is_running(name) on a tracked name whose process has
   exited removes the entry. *)
C7_IsRunningReaps ==
    [][ \A n \in Names :
           (IsRunning(n) /\ n \in DOMAIN processes /\ Zombie(processes[n])) =>
               n \notin DOMAIN processes' ]_vars

(* C7 as amended: is_running changes nothing; a name leaves the process
   table only in reap_dead or in stop of that name, and reap_dead leaves no
   entry whose process has exited. *)
C7_OnlyReapAndStopRemove ==
    [][ /\ \A n \in Names : IsRunning(n) => UNCHANGED <<tables, children>>
        /\ \A n \in (DOMAIN processes) \ (DOMAIN processes') :
              ReapDead \/ StopBegin(n)
        /\ ReapDead => \A n \in DOMAIN processes' : ~Zombie(processes[n])' ]_vars

(* A process that has exited, with its output read to the end, still
   tracked after an is_running call *)
C7_Witness ==
    /\ pc = "idle"
    /\ ret.op = "is_running"
    /\ ret.val = TRUE
    /\ ret.name \in DOMAIN processes
    /\ Zombie(processes[ret.name])
    /\ \A r \in DOMAIN readers : readers[r].key # ret.name

(* C8: reap_dead removes exactly the entries whose process has exited:
   their names are no longer running, and every other entry is still
   tracked, with the same child and the same port. *)
C8_ReapDeadExact ==
    [][ ReapDead =>
          /\ DOMAIN processes' = {n \in DOMAIN processes : Alive(processes[n])}
          /\ \A n \in DOMAIN processes :
                IF Alive(processes[n])
                THEN /\ processes'[n] = processes[n]
                     /\ get_port(n)' = get_port(n)
                ELSE /\ ~is_running(n)'
                     /\ n \notin running_projects'
                     /\ processes[n] \notin DOMAIN children' ]_vars

(* A sweep that removed "a" and left "b" running on its port *)
C8_Witness ==
    /\ ret.op = "reap_dead"
    /\ "a" \notin DOMAIN processes
    /\ "a" \in DOMAIN output_buffers
    /\ "b" \in DOMAIN processes
    /\ Alive(processes["b"])
    /\ get_port("b") = Some(3000)

(* C9: between calls, get_output(name) is empty for every name that is
   not tracked. *)
C9_UntrackedHasNoOutput ==
    pc = "idle" => \A n \in Names : n \notin running_projects => get_output(n) = <<>>

(* The commands whose program cannot be executed *)
FailingCommands ==
    {cmd \in Commands : SplitWhitespace(cmd) # <<>> /\ ~SpawnOk(SplitWhitespace(cmd))}

(* C10 as stated: a start whose spawn fails returns an error, changes no
   table, creates no child and no reader thread, and name is not among the
   running projects. *)
C10_SpawnFailureNoTrace ==
    [][ \A n \in Names, cmd \in FailingCommands, p \in PortArgs :
           StartSpawnFails(n, cmd, p) =>
               /\ ret'.val = "Err: spawn"
               /\ UNCHANGED <<tables, children, readers, spawned>>
               /\ n \notin running_projects' ]_vars

(* C10 as amended: a start whose spawn fails returns an error, changes no
   table, creates no child and no reader thread, and name is among the
   running projects afterwards only if it was before. *)
C10_SpawnFailureNoChange ==
    [][ \A n \in Names, cmd \in FailingCommands, p \in PortArgs :
           StartSpawnFails(n, cmd, p) =>
               /\ ret'.val = "Err: spawn"
               /\ UNCHANGED <<tables, children, readers, spawned>>
               /\ (n \in running_projects') <=> (n \in running_projects) ]_vars

(* A failed start under a name that is tracked, with its process alive *)
C10_Witness ==
    /\ ret.op = "start"
    /\ ret.val = "Err: spawn"
    /\ ret.name \in DOMAIN processes
    /\ Alive(processes[ret.name])
    /\ get_port(ret.name) = Some(3000)

(* The commands that are empty or hold only whitespace *)
BlankCommands == {cmd \in Commands : \A i \in 1..Len(cmd) : cmd[i] = " "}

(* C11: a start whose command is empty or holds only whitespace returns
   the error "Empty command", spawns no child and no reader thread, and
   changes no table, whether or not the name is tracked. *)
C11_EmptyCommandNoChange ==
    [][ \A n \in Names :
           (pc = "idle" /\ ret'.op = "start" /\ ret'.name = n) =>
               \A cmd \in BlankCommands, p \in PortArgs :
                   Start(n, cmd, p) =>
                       /\ ret'.val = "Err: Empty command"
                       /\ UNCHANGED <<tables, children, readers, spawned>> ]_vars

(* A start with an empty command under a name that is tracked, with its
   process alive, its port recorded and a line in its buffer *)
C11_Witness ==
    /\ ret.op = "start"
    /\ ret.val = "Err: Empty command"
    /\ ret.name \in DOMAIN processes
    /\ Alive(processes[ret.name])
    /\ get_port(ret.name) = Some(3000)
    /\ get_output(ret.name) # <<>>

(* The name a live child was started under: its reader threads run as
   long as it does, and carry the name as their key *)
StartedFor(c) == readers[<<c, "stdout">>].key

(* C12: in the Controller at most one live child was started for a name;
   between the calls of the Controller every live child is the tracked
   entry of its name, and inside a stop the only live child that is not
   tracked is the one being stopped. *)
C12_OneLiveChildPerName ==
    /\ \A c \in DOMAIN children, d \in DOMAIN children :
          (Alive(c) /\ Alive(d) /\ StartedFor(c) = StartedFor(d)) => c = d
    /\ \A c \in DOMAIN children :
          Alive(c) =>
              \/ /\ StartedFor(c) \in DOMAIN processes
                 /\ processes[StartedFor(c)] = c
              \/ pc # "idle" /\ call.child = c

(* The second child started for "a" runs, while a reader thread of the
   first one, which has exited, still drains its pipe *)
C12_Witness ==
    /\ pc = "idle"
    /\ spawned = 2
    /\ DOMAIN processes = {"a"}
    /\ processes["a"] = 2
    /\ Alive(2)
    /\ \E s \in Streams : <<1, s>> \in DOMAIN readers /\ readers[<<1, s>>].key = "a"

(* C13: a successful start(name, port) makes get_port(name) the port it
   was given, none when it was given none, and no other step changes the
   port of a name that stays tracked with the same child. *)
C13_PortOfLastStart ==
    [][ /\ \A n \in Names, cmd \in Commands, p \in PortArgs :
              StartSpawns(n, cmd, p) => get_port(n)' = p
        /\ \A n \in (DOMAIN processes) \cap (DOMAIN processes') :
              processes'[n] = processes[n] => get_port(n)' = get_port(n) ]_vars

(* A line is in the pipe of child c, written and not yet read *)
Unread(c, k) ==
    /\ <<c, "stdout">> \in DOMAIN readers
    /\ readers[<<c, "stdout">>].nread < k
    /\ k <= readers[<<c, "stdout">>].written

(* The k-th stdout line of child c, started under n, is in get_output(n) *)
Captured(c, k, n) ==
    \E i \in 1..Len(get_output(n)) :
        get_output(n)[i] = PushStdout(LineText(c, "stdout", k))

(* C14: every line a child writes to stdout is read by its reader thread,
   also when the child has exited before; it is in get_output of the name
   the child was started under once it is read, unless stop(name) has
   removed the buffer; and reap_dead removes the name of every child that
   has exited from running_projects. *)
C14_OutputCaptured ==
    /\ \A c \in 1..MaxChildren, k \in 1..MaxLines : Unread(c, k) ~> ~Unread(c, k)
    /\ [][ \A c \in Pids :
              ReaderStep(c, "stdout") =>
                  \A k \in 1..MaxLines, n \in Names :
                      (/\ readers[<<c, "stdout">>].nread + 1 = k
                       /\ StartedFor(c) = n
                       /\ n \in DOMAIN output_buffers) => Captured(c, k, n)' ]_vars
    /\ [][ ReapDead =>
              \A n \in DOMAIN processes :
                  Zombie(processes[n]) => n \notin running_projects' ]_vars

(* The child printed a line and exited, the line was read after the exit
   and reap_dead has removed the name *)
C14_Witness ==
    /\ ret.op = "reap_dead"
    /\ "a" \notin running_projects
    /\ children = EmptyMap
    /\ readers = EmptyMap
    /\ Captured(1, 1, "a")

(* C15: poll returns; it takes every result out of the channel that was in
   it at the call, each published result exactly once and in order, and
   stores it whole under its path; it returns true iff it took at least
   one, and a poll that took none has left the cache unchanged. *)
C15_PollDrains ==
    /\ [](result_rx = SubSeq(published, ningested + 1, Len(published)))
    /\ [][ PollIngest =>
              LET result == Head(result_rx)
              IN  /\ result = published[ningested + 1]
                  /\ ningested' = ningested + 1
                  /\ \A path \in Paths :
                        IF path = result.path
                        THEN /\ get_git_status(path)' = result.git_status
                             /\ get_detection(path)' = result.detection
                        ELSE /\ get_git_status(path)' = get_git_status(path)
                             /\ get_detection(path)' = get_detection(path) ]_vars
    /\ [][ PollReturn =>
              /\ ningested >= poll.first + poll.avail
              /\ gret'.val = (ningested > poll.first)
              /\ UNCHANGED <<cache, result_rx>> ]_vars
    /\ [][ (poll.pc = "poll" /\ cache' # cache) => PollIngest ]_vars
    /\ (poll.pc = "poll") ~> (poll.pc = "idle")

(* A poll about to return that took two results, one of which arrived
   after the call *)
C15_Witness ==
    /\ poll.pc = "poll"
    /\ result_rx = <<>>
    /\ poll.avail = 1
    /\ ningested = poll.first + 2

(* C16: is_stale(path) is true exactly when the cache has no entry for
   path or the entry is older than 30 s, to the millisecond. *)
C16_StaleAfter30s ==
    [][ \A path \in Paths :
           IsStale(path) =>
               gret'.val = (\/ path \notin DOMAIN cache
                            \/ now - cache[path].fetched_at > StaleSecs * 1000) ]_vars

(* C17: right after poll has ingested a result for a path the path is not
   stale; a stale path stays stale until poll ingests a result for it; and
   a path is stale once its entry is older than the threshold. *)
C17_StalenessMonotone ==
    /\ [][ \A path \in Paths :
              /\ (PollIngest /\ Head(result_rx).path = path) => ~is_stale(path)'
              /\ (is_stale(path) /\ ~is_stale(path)') =>
                    (PollIngest /\ Head(result_rx).path = path) ]_vars
    /\ [](\A path \in DOMAIN cache :
             now - cache[path].fetched_at > StaleSecs * 1000 => is_stale(path))

(* The results for a path that poll has taken so far, as indices of the
   history *)
IngestedFor(path) == {i \in 1..ningested : published[i].path = path}

Last(S) == CHOOSE i \in S : \A j \in S : j <= i

(* C18: the results are published in the order of the requests, and a
   cache entry holds both fields of the last result ingested for its path. *)
C18_LastWriteWins ==
    /\ Len(published) <= Len(requested)
    /\ \A i \in 1..Len(published) : published[i].path = requested[i]
    /\ \A path \in DOMAIN cache :
          /\ IngestedFor(path) # {}
          /\ cache[path].git_status = published[Last(IngestedFor(path))].git_status
          /\ cache[path].detection = published[Last(IngestedFor(path))].detection

(* "p" was requested twice, the directory changed between the two probes,
   both results are ingested and the cache holds the second *)
C18_Witness ==
    /\ requested = <<"p", "p">>
    /\ ningested = 2
    /\ poll.pc = "idle"
    /\ published[1].git_status # <<>>
    /\ published[2].git_status = <<>>
    /\ get_git_status("p") = <<>>

(* C19: every request is answered by exactly one result for its path, in
   the order of the requests; none is dropped or answered twice, a failing
   probe included. *)
C19_OneResultPerRequest ==
    /\ \A k \in 1..MaxRequests : (Len(requested) >= k) ~> (Len(published) >= k)
    /\ [](Len(requested) =
             Len(published) + Len(request_rx) + (IF worker.pc = "detect" THEN 1 ELSE 0))
    /\ [](\A i \in 1..Len(published) : published[i].path = requested[i])

(* Both probes of "q" failed, its result has neither field, and the
   request for "p" queued behind it was answered *)
C19_Witness ==
    /\ requested = <<"q", "p">>
    /\ Len(published) = 2
    /\ published[1].git_status = <<>>
    /\ published[1].detection = <<>>
    /\ published[2].detection # <<>>

(* C20: get_git_status, get_detection and is_stale return what the cache
   holds and change neither the cache nor a channel; an entry goes or
   changes its value only when poll ingests a result for its path or in
   invalidate_all, however old it is. *)
C20_ReadsArePure ==
    [][ /\ \A path \in Paths :
              /\ (IsStale(path) \/ GetGitStatus(path) \/ GetDetection(path)) =>
                    UNCHANGED <<cache, request_rx, result_rx, requested, worker, poll>>
              /\ GetGitStatus(path) => gret'.val = get_git_status(path)
              /\ GetDetection(path) => gret'.val = get_detection(path)
        /\ \A path \in DOMAIN cache :
              (\/ path \notin DOMAIN cache'
               \/ get_git_status(path)' # get_git_status(path)
               \/ get_detection(path)' # get_detection(path)) =>
                  (InvalidateAll \/ (PollIngest /\ Head(result_rx).path = path)) ]_vars

(* get_git_status returns the cached status of an entry that is stale *)
C20_Witness ==
    /\ gret.op = "get_git_status"
    /\ gret.path \in DOMAIN cache
    /\ is_stale(gret.path)
    /\ gret.val # <<>>
    /\ gret.val = cache[gret.path].git_status

(* C21: right after invalidate_all every path has no git status and no
   detection and is stale, and it stays so for a path until poll ingests a
   result for it; invalidate_all changes neither channel. *)
C21_InvalidateAllClears ==
    [][ /\ InvalidateAll =>
              /\ \A path \in Paths :
                    /\ get_git_status(path)' = <<>>
                    /\ get_detection(path)' = <<>>
                    /\ is_stale(path)'
              /\ UNCHANGED <<request_rx, result_rx>>
        /\ \A path \in Paths :
              (/\ path \notin DOMAIN cache
               /\ \/ get_git_status(path)' # <<>>
                  \/ get_detection(path)' # <<>>
                  \/ ~is_stale(path)') =>
                  (PollIngest /\ Head(result_rx).path = path) ]_vars

(* invalidate_all has dropped a fresh entry, while a result is in the
   channel and a request waits for the worker *)
C21_Witness ==
    /\ gret.op = "invalidate_all"
    /\ cache = EmptyMap
    /\ ningested > 0
    /\ now = 0
    /\ result_rx # <<>>

(* C22: once the worker thread is dead it stays dead and publishes nothing;
   request returns normally and changes nothing; poll returns, and returns
   false when the channel was empty at the call; get_git_status and
   get_detection answer from the cache, whose entries hold the last result
   ingested for their path. *)
C22_DegradedMode ==
    /\ [][ worker.pc = "dead" =>
              /\ worker'.pc = "dead"
              /\ request_rx' = <<>>
              /\ published' = published
              /\ Len(result_rx') <= Len(result_rx) ]_vars
    /\ [][ \A path \in Paths :
              (worker.pc = "dead" /\ Request(path)) =>
                  /\ gret' = [op |-> "request", path |-> path, val |-> None]
                  /\ UNCHANGED <<request_rx, result_rx, cache, poll>> ]_vars
    /\ (poll.pc = "poll") ~> (poll.pc = "idle")
    /\ [][ PollReturn => gret'.val = poll.updated ]_vars
    /\ []((worker.pc = "dead" /\ result_rx = <<>> /\ poll.pc = "idle") =>
             [](poll.pc = "poll" => ~poll.updated))
    /\ [][ \A path \in Paths :
              /\ (worker.pc = "dead" /\ GetGitStatus(path)) =>
                    (gret'.val = get_git_status(path) /\ UNCHANGED cache)
              /\ (worker.pc = "dead" /\ GetDetection(path)) =>
                    (gret'.val = get_detection(path) /\ UNCHANGED cache) ]_vars
    /\ [](\A path \in DOMAIN cache :
             /\ IngestedFor(path) # {}
             /\ cache[path].git_status = published[Last(IngestedFor(path))].git_status
             /\ cache[path].detection = published[Last(IngestedFor(path))].detection)

(* The worker died with a request in its queue; a request made after that
   is lost as well, a poll has returned false, and get_git_status still
   answers with the status ingested before *)
C22_Witness ==
    /\ worker.pc = "dead"
    /\ Len(requested) = 2
    /\ Len(published) = 1
    /\ ningested = 1
    /\ gret.op = "get_git_status"
    /\ gret.val # <<>>

(* C23: the worker thread is in its loop as long as the GitWorker exists;
   it leaves the loop only in recv() on a request channel that is closed
   and empty; a failed send of a result takes it back to recv(); every
   request that leaves the channel is probed; and once the GitWorker is
   dropped the thread terminates. *)
C23_WorkerTermination ==
    /\ [](poll.pc # "dropped" => worker.pc \in {"recv", "detect"})
    /\ [][ (worker.pc # "ended" /\ worker'.pc = "ended") =>
              /\ worker.pc = "recv"
              /\ poll.pc = "dropped"
              /\ request_rx = <<>> ]_vars
    /\ [][ (WorkerSend /\ poll.pc = "dropped") => worker'.pc = "recv" ]_vars
    /\ [][ request_rx' # request_rx =>
              \/ \E path \in Paths : Request(path)
              \/ /\ request_rx' = Tail(request_rx)
                 /\ worker'.pc = "detect"
                 /\ worker'.path = Head(request_rx) ]_vars
    /\ [](worker.pc = "ended" => request_rx = <<>>)
    /\ (poll.pc = "dropped") ~> (worker.pc = "ended")

(* Two requests were in the channel when the GitWorker was dropped; the
   worker has probed both, failed to send both results, and terminated *)
C23_Witness ==
    /\ worker.pc = "ended"
    /\ Len(requested) = 2
    /\ published = <<>>

(* C24: for a directory without a .git entry the worker takes no git
   status, also where git would answer, and for one with a .git entry where
   git cannot be run it has none either; whatever the git status, the
   result carries the detection of the directory, absent only when
   package.json is there and cannot be read or parsed; and poll stores both
   fields as they are under the path. *)
C24_NoGitNoStatus ==
    [][ /\ WorkerRecv =>
              LET dir == fs[Head(request_rx)]
              IN  /\ ~dir.dotgit => worker'.git_status = <<>>
                  /\ (dir.dotgit /\ dir.branch = None) => worker'.git_status = <<>>
                  /\ (dir.dotgit /\ dir.branch # None) => worker'.git_status # <<>>
        /\ WorkerSend =>
              LET dir == fs[worker.path]
                  result == published'[Len(published')]
              IN  /\ Len(published') = Len(published) + 1
                  /\ result.path = worker.path
                  /\ result.git_status = worker.git_status
                  /\ (result.detection = <<>>) <=>
                        (/\ "package.json" \in dir.files
                         /\ dir.package_json.content \in {"unreadable", "malformed"})
        /\ PollIngest =>
              \A path \in Paths :
                  Head(result_rx).path = path =>
                      /\ get_git_status(path)' = Head(result_rx).git_status
                      /\ get_detection(path)' = Head(result_rx).detection ]_vars

(* "p" has become a Rust project without a .git entry, inside the work
   tree of another repository; it was probed and polled: it has no git
   status, and its detection is there *)
C24_Witness ==
    /\ ~fs["p"].dotgit
    /\ fs["p"].branch # None
    /\ requested = <<"p">>
    /\ ningested = 1
    /\ get_git_status("p") = <<>>
    /\ get_detection("p") # <<>>
    /\ get_detection("p")[1].project_type = "Rust"

(* C25 as stated: for a directory with a Cargo.toml, whatever other files
   are next to it, detect reports a Rust project, Cargo and a run command
   that is not empty. *)
C25_CargoIsRust ==
    (gret.op = "detect" /\ "Cargo.toml" \in fs[gret.path].files) =>
        /\ gret.val.ok
        /\ gret.val.val.project_type = "Rust"
        /\ gret.val.val.package_manager = Some("Cargo")
        /\ gret.val.val.run_command # <<>>
        /\ gret.val.val.run_command[1] # <<>>

(* C25 as amended: for a directory with a Cargo.toml and no package.json,
   whatever other files are next to it, detect reports a Rust project,
   Cargo and the run command "cargo run". *)
C25_CargoIsRustUnlessJs ==
    (/\ gret.op = "detect"
     /\ "Cargo.toml" \in fs[gret.path].files
     /\ "package.json" \notin fs[gret.path].files) =>
        /\ gret.val.ok
        /\ gret.val.val.project_type = "Rust"
        /\ gret.val.val.package_manager = Some("Cargo")
        /\ gret.val.val.run_command = Some(<<"cargo run">>)

(* detect on a directory with Cargo.toml, go.mod, manage.py, main.py and a
   lockfile, and no package.json *)
C25_Witness ==
    /\ gret.op = "detect"
    /\ fs[gret.path].files =
          {"Cargo.toml", "go.mod", "manage.py", "main.py", "yarn.lock"}
    /\ gret.val.ok
    /\ gret.val.val.project_type = "Rust"

(* The package manager of a directory, by its lockfiles *)
ByLockfile(files) ==
    CASE "pnpm-lock.yaml" \in files -> "pnpm"
      [] "pnpm-lock.yaml" \notin files /\ "yarn.lock" \in files -> "yarn"
      [] {"pnpm-lock.yaml", "yarn.lock"} \cap files = {} /\ "bun.lockb" \in files -> "bun"
      [] Lockfiles \cap files = {} -> "npm"

(* The script to run, by preference, where there is one *)
Preferred(scripts, s) ==
    \/ s = "dev" /\ "dev" \in scripts
    \/ s = "start" /\ "start" \in scripts /\ "dev" \notin scripts
    \/ s = "serve" /\ "serve" \in scripts /\ {"dev", "start"} \cap scripts = {}
    \/ s = "watch" /\ "watch" \in scripts /\ {"dev", "start", "serve"} \cap scripts = {}

(* C29: for a directory with a package.json, whatever other files are next
   to it: when package.json cannot be read or parsed detect fails; else it
   reports a JavaScript project, the package manager of the first lockfile
   of pnpm-lock.yaml, yarn.lock, bun.lockb that is there, npm when none is,
   and as run command "<pm> run <script>" for the first of dev, start,
   serve, watch among the scripts, none when there is none of them. *)
C29_PackageJsonIsJs ==
    (gret.op = "detect" /\ "package.json" \in fs[gret.path].files) =>
        LET dir == fs[gret.path]
            pm == ByLockfile(dir.files)
            scripts == IF dir.package_json.scripts = <<>> THEN {}
                       ELSE dir.package_json.scripts[1]
        IN  IF dir.package_json.content \in {"unreadable", "malformed"}
            THEN /\ ~gret.val.ok
                 /\ ResultOk(gret.val) = <<>>
            ELSE /\ gret.val.ok
                 /\ gret.val.val.project_type = "JavaScript"
                 /\ gret.val.val.package_manager # <<>>
                 /\ as_str(gret.val.val.package_manager[1]) = pm
                 /\ \A s \in ScriptNames :
                       Preferred(scripts, s) =>
                           gret.val.val.run_command = Some(<<pm, " run ", s>>)
                 /\ (\A s \in ScriptNames : ~Preferred(scripts, s)) =>
                       gret.val.val.run_command = <<>>

(* detect on a directory with package.json, Cargo.toml, yarn.lock and
   bun.lockb, whose scripts are start, watch and build *)
C29_Witness ==
    /\ gret.op = "detect"
    /\ fs[gret.path].files = {"package.json", "Cargo.toml", "yarn.lock", "bun.lockb"}
    /\ fs[gret.path].package_json = PackageJson(Some({"start", "watch", "build"}))
    /\ gret.val.ok
    /\ gret.val.val.run_command = Some(<<"yarn", " run ", "start">>)

(* C28: no two projects of the store have names that are equal ignoring
   ASCII case, and the list is sorted by lower-cased name; an add whose
   name is present, ignoring ASCII case, changes nothing, and any other add
   puts the entry in and keeps the others; remove(name) leaves no entry
   that matches name ignoring ASCII case and keeps the others in their
   order. *)
C28_StoreUniqueSorted ==
    /\ [](\A i \in 1..Len(store), j \in 1..Len(store) :
             i < j =>
                 /\ ~eq_ignore_ascii_case(store[i].name, store[j].name)
                 /\ Rank(to_lowercase(store[i].name)) <= Rank(to_lowercase(store[j].name)))
    /\ [][ \A name \in StoreNames, path \in Paths :
              StoreAdd(ProjectEntry(name, path)) =>
                  IF \E i \in 1..Len(store) : eq_ignore_ascii_case(store[i].name, name)
                  THEN store' = store
                  ELSE /\ Len(store') = Len(store) + 1
                       /\ \E k \in 1..Len(store') :
                             /\ store'[k] = ProjectEntry(name, path)
                             /\ store = [i \in 1..Len(store) |->
                                           IF i < k THEN store'[i] ELSE store'[i + 1]] ]_vars
    /\ [][ \A name \in StoreNames :
              StoreRemove(name) =>
                  /\ \A i \in 1..Len(store') : ~eq_ignore_ascii_case(store'[i].name, name)
                  /\ store' = SelectSeq(store, LAMBDA p :
                                 to_ascii_lowercase(p.name) # to_ascii_lowercase(name)) ]_vars

(* "A" is in the store with the path it was added with; "a" was not added
   next to it; the two names that differ in a letter outside ASCII are both
   there, in the order of their adds *)
C28_Witness ==
    /\ Len(store) = 4
    /\ store[1] = ProjectEntry("A", "q")
    /\ store[2].name = "b"
    /\ store[3].name = "e-acute"
    /\ store[4].name = "E-acute"

(* C26: the main thread runs no probe: the git status and the detection
   that the Controller holds for the selected project are none or values
   that poll has put into the cache of the background worker. *)
C26_MainThreadNeverProbes ==
    [][ /\ selected_git_status' # selected_git_status =>
              selected_git_status' \in
                  {<<>>} \cup {cache'[path].git_status : path \in DOMAIN cache'}
        /\ selected_detection' # selected_detection =>
              selected_detection' \in
                  {<<>>} \cup {cache'[path].detection : path \in DOMAIN cache'} ]_vars

(* C27: when Tui::run has returned after a confirmed quit, no name is
   tracked, no child that was started is alive, and every name the loop
   took was stopped: no child is left to the OS unreaped. *)
C27_QuitStopsAll ==
    tui.pc = "exited" =>
        /\ should_quit
        /\ running_projects = {}
        /\ \A c \in 1..spawned : ~Alive(c)
        /\ children = EmptyMap

(* Two projects were running when quit was confirmed; both were stopped,
   the second one had to be killed *)
C27_Witness ==
    /\ tui.pc = "exited"
    /\ spawned = 2
    /\ ret.op = "stop"
    /\ ret.note = "killed"
    /\ \A c \in 1..2 : Reaped(c)

(* C30: per name Absent -> Running -> Absent: a name becomes tracked only
   in a start that returns Ok; it becomes untracked only in a stop of that
   name, or when reap_dead or is_running finds that its process has exited;
   get_output, running_projects and get_port leave the tracked names as
   they are. *)
C30_NameStateMachine ==
    [][ /\ \A n \in (DOMAIN processes') \ (DOMAIN processes) :
              /\ ret'.op = "start"
              /\ ret'.val = "Ok"
              /\ \E cmd \in Commands, p \in PortArgs : Start(n, cmd, p)
        /\ \A n \in (DOMAIN processes) \ (DOMAIN processes') :
              \/ ret'.op = "stop" /\ StopBegin(n)
              \/ /\ Zombie(processes[n])
                 /\ \/ ret'.op = "reap_dead" /\ ReapDead
                    \/ ret'.op = "is_running" /\ IsRunning(n)
        /\ \A n \in Names :
              \/ ret'.op = "get_output" /\ GetOutput(n)
              \/ ret'.op = "running_projects" /\ RunningProjects
              \/ ret'.op = "get_port" /\ GetPort(n)
              => DOMAIN processes' = DOMAIN processes ]_vars

(* A name was started and has left the table when its process exited by
   itself; the three queries then see no tracked name, and its output *)
C30_Witness ==
    /\ ret.op = "get_output"
    /\ ret.val # <<>>
    /\ spawned = 1
    /\ Reaped(1)
    /\ call = NoCall
    /\ running_projects = {}
    /\ get_port(ret.name) = <<>>

(* The child is still a process of the OS, no table entry holds its handle,
   and no stop is at work on it: its Child was dropped by processes.insert *)
Leaked(c) ==
    /\ c \in DOMAIN children
    /\ \A n \in DOMAIN processes : processes[n] # c
    /\ ~(pc # "idle" /\ call.child = c)

(* C31: a start under a name that is tracked, with its process alive, and
   with a command that can be spawned, returns Ok, puts the new child in
   the entry and an empty buffer under the name; the earlier child is still
   alive and has been sent no signal, and from then on no step of the
   supervisor signals it, reaps it or tracks it again. *)
C31_DoubleStartLeaks ==
    [][ /\ \A n \in Names :
              ( /\ n \in DOMAIN processes
                /\ Alive(processes[n])
                /\ \E cmd \in Commands, p \in PortArgs :
                      /\ SplitWhitespace(cmd) # <<>>
                      /\ SpawnOk(SplitWhitespace(cmd))
                      /\ Start(n, cmd, p) )
              => /\ ret'.val = "Ok"
                 /\ processes'[n] = spawned'
                 /\ processes'[n] # processes[n]
                 /\ output_buffers'[n] = <<>>
                 /\ \A c \in {processes[n]} :
                       /\ Alive(c)'
                       /\ ~children'[c].term
                       /\ Leaked(c)'
        /\ \A c \in DOMAIN children :
              Leaked(c) => /\ Leaked(c)'
                           /\ ~children[c].term
                           /\ ~children'[c].term ]_vars

(* The first child of "a" was replaced by a second start of "a" and has
   exited since; "a" was then stopped, which killed the second child: the
   first one is a zombie that nothing has reaped *)
C31_Witness ==
    /\ spawned = 2
    /\ Leaked(1)
    /\ Zombie(1)
    /\ Reaped(2)
    /\ pc = "idle"
    /\ ret.op = "stop"
    /\ ret.name = "a"
    /\ readers = EmptyMap \/ \A r \in DOMAIN readers : readers[r].key = "a"

(* The lines of buf that child c wrote to stream s *)
OfStream(buf, c, s) == SelectSeq(buf, LAMBDA e : e.text[1] = c /\ e.text[2] = s)

(* C32: in every buffer the lines of one stream of one child are in the
   order the child wrote them, each at most once; a line of stderr has the
   prefix "[stderr] " and a line of stdout has none.  Nothing is said of
   the order between a stdout and a stderr line. *)
C32_StreamOrder ==
    \A n \in DOMAIN output_buffers :
        LET buf == output_buffers[n]
        IN  /\ \A c \in Pids, s \in Streams :
                  LET sub == OfStream(buf, c, s)
                  IN  /\ \A i \in 1..(Len(sub) - 1) : sub[i].text[3] < sub[i + 1].text[3]
                      /\ <<c, s>> \in DOMAIN readers =>
                            \A i \in 1..Len(sub) :
                                sub[i].text[3] \in 1..readers[<<c, s>>].nread
              /\ \A i \in 1..Len(buf) :
                    buf[i].prefix = IF buf[i].text[2] = "stderr" THEN "[stderr] " ELSE ""

(* Two lines of each stream were pushed, the stderr reader first and the
   two readers by turns *)
C32_Witness ==
    LET buf == output_buffers["a"]
        k == Len(buf)
    IN  /\ k = OutputCap
        /\ buf[k - 3] = PushStderr(LineText(1, "stderr", 1))
        /\ buf[k - 2] = PushStdout(LineText(1, "stdout", RingFill + 1))
        /\ buf[k - 1] = PushStderr(LineText(1, "stderr", 2))
        /\ buf[k] = PushStdout(LineText(1, "stdout", RingFill + 2))

(* C33: running_projects() returns the tracked names and changes nothing;
   a tracked name whose process has exited stays tracked in every step but
   a sweep and a stop of that name; and a frame, which
   begins with the sweep, counts and shows the log of no process that had
   exited before the sweep. *)
C33_FrameAfterSweep ==
    [][ /\ (ret'.op = "running_projects" /\ RunningProjects) =>
              /\ ret'.val = DOMAIN processes
              /\ UNCHANGED <<tables, children>>
        /\ \A n \in DOMAIN processes :
              (Zombie(processes[n]) /\ n \notin DOMAIN processes') =>
                  \/ ret'.op = "reap_dead" /\ ReapDead
                  \/ ret'.op = "render"
                  \/ ret'.op = "stop" /\ StopBegin(n)
        /\ \A sel \in Names \cup {None} :
              (ret'.op = "render" /\ RenderFrame(sel)) =>
                  LET exited == {n \in DOMAIN processes : Zombie(processes[n])}
                  IN  /\ ret'.val.running_count =
                            Cardinality((DOMAIN processes) \ exited)
                      /\ ret'.val.has_running = ((DOMAIN processes) \ exited # {})
                      /\ ret'.val.logs_of \notin exited
                      /\ sel \in exited => ret'.val.logs = <<>>
                      /\ running_projects' = (DOMAIN processes) \ exited ]_vars

(* Two processes were tracked, the selected one had exited with a line in
   its buffer: the frame counts one process and shows no log *)
C33_Witness ==
    /\ ret.op = "render"
    /\ ret.name = "a"
    /\ ret.val.running_count = 1
    /\ ret.val.logs_of = None
    /\ ret.val.logs = <<>>
    /\ get_output("a") # <<>>
    /\ running_projects = {"b"}
    /\ Reaped(1)

(* C34: the worker takes the requests one at a time in the order they were
   issued, whatever their paths: the request it takes is the one after the
   last it answered, the k-th result it sends is for the k-th requested
   path, and the k-th result a poll takes is that k-th result. *)
C34_GlobalFifo ==
    /\ [][ WorkerRecv =>
              /\ worker.pc = "recv"
              /\ worker'.path = requested[Len(published) + 1] ]_vars
    /\ [][ published' # published =>
              /\ WorkerSend
              /\ published' = Append(published, published'[Len(published')])
              /\ published'[Len(published')].path = requested[Len(published')] ]_vars
    /\ [][ PollIngest =>
              /\ Head(result_rx).path = requested[ningested + 1]
              /\ Head(result_rx).path \in DOMAIN cache'
              /\ ningested' = ningested + 1 ]_vars

(* "q" was requested before "p"; one poll has taken the result for "q", a
   later one the result for "p" *)
C34_Witness ==
    /\ requested = <<"q", "p">>
    /\ ningested = 2
    /\ poll.pc = "poll"
    /\ poll.first = 1
    /\ poll.updated
    /\ gret.op = "poll"
    /\ gret.val = TRUE
    /\ DOMAIN cache = {"p", "q"}

(* C35: invalidate_all leaves the request channel, the worker and the
   result channel as they are, so every request issued before it is still
   answered and every result still reaches a poll; and a poll stores each
   result it takes under the time of the poll, whenever it was probed, so
   that the entry is not stale when the poll has stored it. *)
C35_InvalidateKeepsInFlight ==
    [][ /\ InvalidateAll =>
              /\ UNCHANGED <<request_rx, worker, result_rx, published, ningested>>
              /\ Len(requested) =
                     Len(published) + Len(request_rx) +
                         (IF worker.pc = "detect" THEN 1 ELSE 0)
              /\ result_rx = SubSeq(published, ningested + 1, Len(published))
        /\ PollIngest =>
              \A path \in {Head(result_rx).path} :
                  /\ cache'[path] = CachedEntry(Head(result_rx), now)
                  /\ ~is_stale(path)' ]_vars

(* invalidate_all was the last call before this poll, which has taken a
   result that was in the channel when it began: the cache, emptied after
   the request was issued, holds its data again, and not as stale *)
C35_Witness ==
    /\ gret.op = "invalidate_all"
    /\ poll.pc = "poll"
    /\ poll.avail >= 1
    /\ ningested = poll.first + 1
    /\ now > 0
    /\ \A path \in {published[ningested].path} :
          /\ DOMAIN cache = {path}
          /\ cache[path] = CachedEntry(published[ningested], now)
          /\ ~is_stale(path)

(* C36: a reader thread keeps the key it was started with; a turn of its
   loop leaves the process table, the port table and the set of names that
   have a buffer as they are, changes no buffer but the one under its key,
   to which it appends one line, and changes nothing when no buffer is
   stored under its key.  A buffer comes into being only in a start that
   returns Ok, so that get_output(name) stays empty from a stop of name to
   the next start of name. *)
C36_ReadersOnlyAppend ==
    [][ /\ \A c \in Pids, s \in Streams :
              ReaderStep(c, s) =>
                  LET key == readers[<<c, s>>].key
                  IN  /\ UNCHANGED <<processes, ports>>
                      /\ DOMAIN output_buffers' = DOMAIN output_buffers
                      /\ \A n \in DOMAIN output_buffers :
                            IF n = key
                            THEN output_buffers'[n] =
                                     LastN(Append(output_buffers[n], output_buffers'[n][Len(output_buffers'[n])]),
                                           OutputCap)
                            ELSE output_buffers'[n] = output_buffers[n]
                      /\ key \notin DOMAIN output_buffers => UNCHANGED output_buffers
        /\ \A r \in (DOMAIN readers) \cap (DOMAIN readers') :
              readers'[r].key = readers[r].key
        /\ \A n \in Names :
              (get_output(n) = <<>> /\ get_output(n)' # <<>>) =>
                  n \in DOMAIN output_buffers
        /\ \A n \in (DOMAIN output_buffers') \ (DOMAIN output_buffers) :
              /\ ret'.op = "start"
              /\ ret'.val = "Ok"
              /\ ret'.name = n
              /\ \E cmd \in Commands, p \in PortArgs : Start(n, cmd, p) ]_vars

(* stop has returned and removed the buffer of its name while a line of
   the stopped child is still in the pipe for the reader thread *)
C36_Witness ==
    /\ pc = "idle"
    /\ ret.op = "stop"
    /\ ret.name \notin DOMAIN output_buffers
    /\ Reaped(1)
    /\ spawned = 1
    /\ \E r \in DOMAIN readers :
          /\ readers[r].key = ret.name
          /\ readers[r].nread < readers[r].written

(* C37: between the calls of the Controller, every line of the buffer of a
   tracked name was written by the process that is tracked under the name. *)
C37_OnlyCurrentProcessOutput ==
    pc = "idle" =>
        \A n \in (DOMAIN processes) \cap (DOMAIN output_buffers) :
            \A i \in 1..Len(output_buffers[n]) :
                output_buffers[n][i].text[1] = processes[n]

(* C38: between the calls of the supervisor every tracked name has an
   output buffer, every name with a port is tracked, and every name with an
   output buffer is tracked. *)
C38_TablesConsistent ==
    pc = "idle" =>
        /\ DOMAIN processes \subseteq DOMAIN output_buffers
        /\ DOMAIN ports \subseteq DOMAIN processes
        /\ DOMAIN output_buffers \subseteq DOMAIN processes

(* C39: between the key actions of the Controller, every tracked name is
   the name of a project of the store. *)
C39_RunningAreInStore ==
    pc = "idle" =>
        \A n \in running_projects : \E i \in 1..Len(store) : store[i].name = n

====
